---- MODULE Spec2Model ----
(***************************************************************************)
(* A model of aligntools: Cigar (cigar.py), CoordinateMapping / IntDict    *)
(* (coordinate_mapping.py, int_dict.py) and CigarHit (cigar_hit.py).       *)
(*                                                                         *)
(* The library is purely functional: every operation takes immutable       *)
(* values and returns a fresh value or raises.  The state of the model is  *)
(* the operands a caller holds (inp), the operation last called (op) and   *)
(* what it returned or raised (out).                                       *)
(*                                                                         *)
(* Values.                                                                 *)
(*   operation  : [op |-> 0..8, raw |-> BOOLEAN]; raw marks a plain int    *)
(*                given where a CigarActions member is expected (Python    *)
(*                compares the two equal, but formats them differently)    *)
(*   Cigar      : the tuple Cigar._data, a sequence of                     *)
(*                [num |-> count, op |-> 0..8, raw |-> BOOLEAN]            *)
(*   Optional   : <<>> is None, <<v>> is the value v                       *)
(*   str        : a sequence of one-character strings                      *)
(*   result     : [kind |-> "ok", val |-> v], or [kind |-> E, val |-> <<>>]*)
(*                when the exception E was raised                          *)
(***************************************************************************)
EXTENDS Integers, Sequences, FiniteSets, TLC

VARIABLES inp, op, out

vars == <<inp, op, out>>

----------------------------------------------------------------------------
(* Results and exceptions (exceptions.py)                                  *)

Ok(v) == [kind |-> "ok", val |-> v]

Err(e) == [kind |-> e, val |-> <<>>]

IsOk(r) == r.kind = "ok"

None == <<>>

Some(v) == <<v>>

----------------------------------------------------------------------------
(* CigarActions (cigar_actions.py)                                         *)

MATCH == 0
INSERT == 1
DELETE == 2
SKIPPED == 3
SOFT_CLIPPED == 4
HARD_CLIPPED == 5
PADDING == 6
SEQ_MATCH == 7
MISMATCH == 8

CigarActions == {MATCH, INSERT, DELETE, SKIPPED, SOFT_CLIPPED,
                 HARD_CLIPPED, PADDING, SEQ_MATCH, MISMATCH}

\* OP_MAPPING: letter -> action, as a set of pairs
OP_MAPPING ==
    {<<"M", MATCH>>, <<"I", INSERT>>, <<"D", DELETE>>, <<"N", SKIPPED>>,
     <<"S", SOFT_CLIPPED>>, <<"H", HARD_CLIPPED>>, <<"P", PADDING>>,
     <<"=", SEQ_MATCH>>, <<"X", MISMATCH>>}

\* OP_MAPPING_REV[action], the letter CigarActions.__str__ returns
OP_MAPPING_REV(a) == (CHOOSE p \in OP_MAPPING : p[2] = a)[1]

\* CigarActions.parse: None (ParseError) for an unknown letter
CigarActionsParse(ch) ==
    IF \E p \in OP_MAPPING : p[1] = ch
    THEN Some((CHOOSE p \in OP_MAPPING : p[1] = ch)[2])
    ELSE None

\* the three branches of iterate_operations_with_pointers
ConsumesBoth(a) == a \in {MATCH, SEQ_MATCH, MISMATCH}

ConsumesQueryOnly(a) == a \in {INSERT, SOFT_CLIPPED}

ConsumesRefOnly(a) == a \in {DELETE, SKIPPED}

----------------------------------------------------------------------------
(* Cigar (cigar.py)                                                        *)

Item(n, a, r) == [num |-> n, op |-> a, raw |-> r]

\* NormalizeFrom without the check of the sign of the count
RECURSIVE NormalizeFromNoSignCheck(_, _, _, _)
NormalizeFromNoSignCheck(lst, i, acc, last) ==
    IF i > Len(lst) THEN Ok(acc \o last)
    ELSE LET item == lst[i] IN
         IF item.raw /\ item.op \notin {0, 1, 2, 3, 4, 5, 6, 7, 8}
         THEN Err("ValueError")
         ELSE IF item.num = 0
              THEN NormalizeFromNoSignCheck(lst, i + 1, acc, last)
         ELSE IF last # <<>> /\ last[1].op = item.op
              THEN NormalizeFromNoSignCheck(lst, i + 1, acc,
                       <<[num |-> last[1].num + item.num, op |-> item.op,
                          raw |-> FALSE]>>)
         ELSE NormalizeFromNoSignCheck(lst, i + 1, acc \o last, <<item>>)

\* the elements of a list that are not (int, operation) pairs: something
\* that is neither a list nor a tuple, a tuple of another length than 2, a
\* pair whose count is not an int (its operation a, raw when a plain int)
\* and a pair whose operation is neither an int nor a CigarActions member
NotATuple == [bad |-> "not a tuple"]

BadLength == [bad |-> "bad length"]

BadCount(a, r) == [bad |-> "count", op |-> a, raw |-> r]

BadOperation(n) == [bad |-> "operation", num |-> n]

IsBad(item, kinds) == "bad" \in DOMAIN item /\ item.bad \in kinds

\* Cigar.normalize, from item i on; acc is what was yielded so far and
\* last is last_item (None or the pending item).  The type checks come in
\* the order of the code: the tuple, its length, the conversion of a raw
\* int with CigarActions(operation), which raises ValueError outside 0..8,
\* then the types of the count and of the operation, then the sign;
\* last_item = item keeps the item as given, a merge stores the converted
\* operation.
RECURSIVE NormalizeFrom(_, _, _, _)
NormalizeFrom(lst, i, acc, last) ==
    IF i > Len(lst) THEN Ok(acc \o last)
    ELSE LET item == lst[i] IN
         IF IsBad(item, {"not a tuple", "bad length"})
         THEN Err("InvalidOperation")
         ELSE IF ~IsBad(item, {"operation"})
                 /\ item.raw /\ item.op \notin CigarActions
              THEN Err("ValueError")
         ELSE IF IsBad(item, {"count", "operation"})
              THEN Err("InvalidOperation")
         ELSE IF item.num < 0 THEN Err("InvalidOperation")
         ELSE IF item.num = 0 THEN NormalizeFrom(lst, i + 1, acc, last)
         ELSE IF last # None /\ last[1].op = item.op
              THEN NormalizeFrom(lst, i + 1, acc,
                       Some(Item(last[1].num + item.num, item.op, FALSE)))
         ELSE NormalizeFrom(lst, i + 1, acc \o last, Some(item))

\* normalize without the yield of the pending item after the loop
normalizeNoFinalYield(lst) ==
    LET r == NormalizeFrom(lst, 1, <<>>, None) IN
    IF IsOk(r) /\ r.val # <<>>
    THEN Ok(SubSeq(r.val, 1, Len(r.val) - 1))
    ELSE r

normalize(lst) == NormalizeFrom(lst, 1, <<>>, None)

\* Cigar.__init__: self._data = tuple(Cigar.normalize(data))
Cigar(data) == normalize(data)

\* Cigar.__eq__: tuple equality; an IntEnum member equals its int
CigarEq(a, b) ==
    /\ Len(a) = Len(b)
    /\ \A i \in 1..Len(a) : a[i].num = b[i].num /\ a[i].op = b[i].op

\* Cigar.iterate_operations: the decoded stream of operations
RECURSIVE iterate_operations(_)
iterate_operations(c) ==
    IF c = <<>> THEN <<>>
    ELSE [k \in 1..c[1].num |-> [op |-> c[1].op, raw |-> c[1].raw]]
         \o iterate_operations(Tail(c))

\* [(1, op) for op in ...]: a list of unit items from a decoded stream
UnitItems(ops) == [k \in 1..Len(ops) |-> Item(1, ops[k].op, ops[k].raw)]

\* Cigar.iterate_operations_with_pointers, from operation i on with the
\* two running pointers; each element is [op, raw, r, q], r and q Optional
RECURSIVE PointersFrom(_, _, _, _)
PointersFrom(ops, i, rp, qp) ==
    IF i > Len(ops) THEN <<>>
    ELSE LET o == ops[i] IN
         IF ConsumesBoth(o.op)
         THEN <<[op |-> o.op, raw |-> o.raw, r |-> Some(rp), q |-> Some(qp)]>>
              \o PointersFrom(ops, i + 1, rp + 1, qp + 1)
         ELSE IF ConsumesQueryOnly(o.op)
         THEN <<[op |-> o.op, raw |-> o.raw, r |-> None, q |-> Some(qp)]>>
              \o PointersFrom(ops, i + 1, rp, qp + 1)
         ELSE IF ConsumesRefOnly(o.op)
         THEN <<[op |-> o.op, raw |-> o.raw, r |-> Some(rp), q |-> None]>>
              \o PointersFrom(ops, i + 1, rp + 1, qp)
         ELSE <<[op |-> o.op, raw |-> o.raw, r |-> None, q |-> None]>>
              \o PointersFrom(ops, i + 1, rp, qp)

iterate_operations_with_pointers(c) ==
    PointersFrom(iterate_operations(c), 1, 0, 0)

\* max(..., default=0) over a finite set of naturals
MaxOr0(S) == IF S = {} THEN 0 ELSE CHOOSE m \in S : \A x \in S : x <= m

\* Cigar.op_length
op_length(c) == Len(iterate_operations(c))

\* Cigar.query_length: max(query_pointer + 1 if not None else 0)
query_length(c) ==
    LET ps == iterate_operations_with_pointers(c) IN
    MaxOr0({IF ps[i].q # None THEN ps[i].q[1] + 1 ELSE 0 : i \in 1..Len(ps)})

\* Cigar.ref_length: max(ref_pointer + 1 if not None else 0)
ref_length(c) ==
    LET ps == iterate_operations_with_pointers(c) IN
    MaxOr0({IF ps[i].r # None THEN ps[i].r[1] + 1 ELSE 0 : i \in 1..Len(ps)})

\* A Python slice lst[start:end] of a list of length n, as the pair of
\* 0-based bounds <<lo, hi>> (hi exclusive): a negative bound counts from
\* the end, then both are clamped to 0..n
\* slice bounds that saturate: a negative bound is 0
PySliceBoundsSaturating(n, start, end) ==
    LET fix(x) == IF x < 0 THEN 0 ELSE IF x > n THEN n ELSE x
    IN  <<fix(start), fix(end)>>

PySliceBounds(n, start, end) ==
    LET fix(x) == LET y == IF x < 0 THEN x + n ELSE x IN
                  IF y < 0 THEN 0 ELSE IF y > n THEN n ELSE y
    IN  <<fix(start), fix(end)>>

PySlice(lst, start, end) ==
    LET b == PySliceBounds(Len(lst), start, end) IN
    IF b[1] >= b[2] THEN <<>> ELSE SubSeq(lst, b[1] + 1, b[2])

\* Cigar.slice_operations
slice_operations(c, start_inclusive, end_noninclusive) ==
    Cigar(PySlice(UnitItems(iterate_operations(c)),
                  start_inclusive, end_noninclusive))

\* __add__ that joins the two tuples without normalizing the result
CigarAddNoNormalize(a, b) == Ok(a \o b)

\* Cigar.__add__
CigarAdd(a, b) == Cigar(a \o b)

----------------------------------------------------------------------------
(* IntDict (int_dict.py) and CoordinateMapping (coordinate_mapping.py)     *)

\* IntDict.__init__
IntDict == [dict |-> <<>>, domain |-> {}, codomain |-> {}]

\* IntDict.extend; key and value are Optional
IntDictExtend(d, key, value) ==
    [dict     |-> IF key # None /\ value # None
                  THEN (key[1] :> value[1]) @@ d.dict ELSE d.dict,
     domain   |-> IF key # None THEN d.domain \cup {key[1]} ELSE d.domain,
     codomain |-> IF value # None THEN d.codomain \cup {value[1]}
                  ELSE d.codomain]

\* the keys of the mapping (Mapping.keys())
Keys(d) == DOMAIN d.dict

\* min / max of a non-empty finite set of integers
SetMin(S) == CHOOSE m \in S : \A x \in S : m <= x

SetMax(S) == CHOOSE m \in S : \A x \in S : x <= m

\* an equality of two IntDicts that compares the two supersets as well
IntDictEqStructural(a, b) ==
    /\ Keys(a) = Keys(b)
    /\ \A k \in Keys(a) : a.dict[k] = b.dict[k]
    /\ a.domain = b.domain
    /\ a.codomain = b.codomain

\* equality of two IntDicts: the Mapping comparison, of the items only
IntDictEq(a, b) ==
    /\ Keys(a) = Keys(b)
    /\ \A k \in Keys(a) : a.dict[k] = b.dict[k]

\* left_max over the keys strictly below the index
left_max_strict(d, index) ==
    LET vs == {d.dict[k] : k \in {k \in Keys(d) : k < index}} IN
    IF vs = {} THEN None ELSE Some(SetMax(vs))

\* IntDict.left_max: max of the values whose key is <= index
left_max(d, index) ==
    LET vs == {d.dict[k] : k \in {k \in Keys(d) : k <= index}} IN
    IF vs = {} THEN None ELSE Some(SetMax(vs))

\* IntDict.right_min: min of the values whose key is >= index
right_min(d, index) ==
    LET vs == {d.dict[k] : k \in {k \in Keys(d) : k >= index}} IN
    IF vs = {} THEN None ELSE Some(SetMin(vs))

\* IntDict.translate
IntDictTranslate(d, domain_delta, codomain_delta) ==
    [dict     |-> [k \in {x + domain_delta : x \in Keys(d)}
                      |-> d.dict[k - domain_delta] + codomain_delta],
     domain   |-> {k + domain_delta : k \in d.domain},
     codomain |-> {v + codomain_delta : v \in d.codomain}]

\* CoordinateMapping.__init__
CoordinateMapping ==
    [ref_to_query |-> IntDict, query_to_ref |-> IntDict,
     ref_to_op |-> IntDict, query_to_op |-> IntDict]

\* extend that fills query_to_ref in the direction of ref_to_query
CoordExtendSameDirection(m, ref_index, query_index, op_index) ==
    [ref_to_query |-> IntDictExtend(m.ref_to_query, ref_index, query_index),
     query_to_ref |-> IntDictExtend(m.query_to_ref, ref_index, query_index),
     ref_to_op    |-> IntDictExtend(m.ref_to_op, ref_index, Some(op_index)),
     query_to_op  |-> IntDictExtend(m.query_to_op, query_index,
                                    Some(op_index))]

\* CoordinateMapping.extend
CoordExtend(m, ref_index, query_index, op_index) ==
    [ref_to_query |-> IntDictExtend(m.ref_to_query, ref_index, query_index),
     query_to_ref |-> IntDictExtend(m.query_to_ref, query_index, ref_index),
     ref_to_op    |-> IntDictExtend(m.ref_to_op, ref_index, Some(op_index)),
     query_to_op  |-> IntDictExtend(m.query_to_op, query_index,
                                    Some(op_index))]

\* CoordinateMapping.translate
CoordTranslate(m, reference_delta, query_delta) ==
    [ref_to_query |-> IntDictTranslate(m.ref_to_query,
                                       reference_delta, query_delta),
     query_to_ref |-> IntDictTranslate(m.query_to_ref,
                                       query_delta, reference_delta),
     ref_to_op    |-> IntDictTranslate(m.ref_to_op, reference_delta, 0),
     query_to_op  |-> IntDictTranslate(m.query_to_op, query_delta, 0)]

\* Cigar.coordinate_mapping: extend once per decoded operation, the
\* operation pointer counting from 0
RECURSIVE CoordFrom(_, _, _)
CoordFrom(ps, i, m) ==
    IF i > Len(ps) THEN m
    ELSE CoordFrom(ps, i + 1, CoordExtend(m, ps[i].r, ps[i].q, i - 1))

coordinate_mapping(c) ==
    CoordFrom(iterate_operations_with_pointers(c), 1, CoordinateMapping)

----------------------------------------------------------------------------
(* Cigar strips.  The operation bound min_op / max_op is Optional: None    *)
(* stands for float("inf") in the left strips and float("-inf") in the     *)
(* right ones, which no index satisfies.                                   *)

\* the strips' list comprehension keeping, besides the operations within
\* the bound, those that have a pointer on the other axis
StripOpsOtherAxis(c, axis, left, bound) ==
    LET ps == iterate_operations_with_pointers(c)
        other == IF axis = "q" THEN "r" ELSE "q"
        keep(p, i) ==
            \/ p[other] # None
            \/ bound # None /\ (IF left THEN i >= bound[1] ELSE i <= bound[1])
        RECURSIVE pick(_)
        pick(i) == IF i > Len(ps) THEN <<>>
                   ELSE (IF keep(ps[i], i - 1)
                         THEN <<Item(1, ps[i].op, ps[i].raw)>> ELSE <<>>)
                        \o pick(i + 1)
    IN  pick(1)

\* the ops list comprehension shared by the four strips: operation i
\* (0-based) is kept when its pointer on the stripped axis ("q" or "r") is
\* None, or when i >= bound (a left strip) or i <= bound (a right strip)
StripOps(c, axis, left, bound) ==
    LET ps == iterate_operations_with_pointers(c)
        keep(p, i) ==
            \/ p[axis] = None
            \/ bound # None /\ (IF left THEN i >= bound[1] ELSE i <= bound[1])
        RECURSIVE pick(_)
        pick(i) == IF i > Len(ps) THEN <<>>
                   ELSE (IF keep(ps[i], i - 1)
                         THEN <<Item(1, ps[i].op, ps[i].raw)>> ELSE <<>>)
                        \o pick(i + 1)
    IN  pick(1)

\* mapping.get(key, default) with the infinite default
GetOrNone(d, key) == IF key \in Keys(d) THEN Some(d.dict[key]) ELSE None

\* lstrip_query that keeps the operations after min_op only (i > min_op)
CigarLstripQueryAfterFirst(c) ==
    LET m == coordinate_mapping(c)
        min_op == IF Keys(m.ref_to_query) = {} THEN <<>>
                  ELSE GetOrNone(m.ref_to_op, SetMin(Keys(m.ref_to_query)))
    IN  Cigar(StripOps(c, "q", TRUE,
                       IF min_op = <<>> THEN <<>> ELSE <<min_op[1] + 1>>))

\* Cigar.lstrip_query
CigarLstripQuery(c) ==
    LET m == coordinate_mapping(c)
        min_op == IF Keys(m.ref_to_query) = {} THEN None
                  ELSE GetOrNone(m.ref_to_op, SetMin(Keys(m.ref_to_query)))
    IN  Cigar(StripOps(c, "q", TRUE, min_op))

\* Cigar.rstrip_query
CigarRstripQuery(c) ==
    LET m == coordinate_mapping(c)
        max_op == IF Keys(m.ref_to_query) = {} THEN None
                  ELSE GetOrNone(m.ref_to_op, SetMax(Keys(m.ref_to_query)))
    IN  Cigar(StripOps(c, "q", FALSE, max_op))

\* Cigar.lstrip_reference
CigarLstripReference(c) ==
    LET m == coordinate_mapping(c)
        min_op == IF Keys(m.query_to_ref) = {} THEN None
                  ELSE GetOrNone(m.query_to_op, SetMin(Keys(m.query_to_ref)))
    IN  Cigar(StripOps(c, "r", TRUE, min_op))

\* Cigar.rstrip_reference
CigarRstripReference(c) ==
    LET m == coordinate_mapping(c)
        max_op == IF Keys(m.query_to_ref) = {} THEN None
                  ELSE GetOrNone(m.query_to_op, SetMax(Keys(m.query_to_ref)))
    IN  Cigar(StripOps(c, "r", FALSE, max_op))

----------------------------------------------------------------------------
(* Text: Cigar.__str__, Cigar.parse, Cigar.from_msa                        *)

Digits == <<"0", "1", "2", "3", "4", "5", "6", "7", "8", "9">>

IsDigit(ch) == \E d \in 1..Len(Digits) : Digits[d] = ch

DigitVal(ch) == (CHOOSE d \in 1..Len(Digits) : Digits[d] = ch) - 1

\* '%d' / '{}' of a non-negative int
RECURSIVE NatStr(_)
NatStr(n) == IF n < Len(Digits) THEN <<Digits[n + 1]>>
             ELSE NatStr(n \div Len(Digits))
                  \o <<Digits[(n % Len(Digits)) + 1]>>

\* '%d' / '{}' of an int
IntStr(n) == IF n < 0 THEN <<"-">> \o NatStr(-n) ELSE NatStr(n)

\* int(num) of a non-empty string of digits
RECURSIVE StrInt(_)
StrInt(ds) == IF Len(ds) = 1 THEN DigitVal(ds[1])
              ELSE StrInt(SubSeq(ds, 1, Len(ds) - 1)) * Len(Digits)
                   + DigitVal(ds[Len(ds)])

\* '{}'.format(op): the letter for a CigarActions member (CigarActions
\* overrides __str__), the decimal number for a plain int
OpStr(it) == IF it.raw THEN IntStr(it.op) ELSE <<OP_MAPPING_REV(it.op)>>

\* Cigar.__str__
RECURSIVE CigarStr(_)
CigarStr(c) ==
    IF c = <<>> THEN <<>>
    ELSE IntStr(c[1].num) \o OpStr(c[1]) \o CigarStr(Tail(c))

\* the length of the longest prefix of digits of s ([0-9]+ or \d+, greedy)
RECURSIVE DigitsPrefix(_)
DigitsPrefix(s) ==
    IF s = <<>> \/ ~IsDigit(s[1]) THEN 0 ELSE 1 + DigitsPrefix(Tail(s))

\* Cigar.parse, the while loop with data collected so far; each round
\* matches ([0-9]+)([^0-9]) at the start of the string
RECURSIVE ParseFrom(_, _)
ParseFrom(string, data) ==
    IF string = <<>> THEN Cigar(data)
    ELSE LET nd == DigitsPrefix(string) IN
         IF nd = 0 \/ nd = Len(string) THEN Err("ParseError")
         ELSE LET a == CigarActionsParse(string[nd + 1]) IN
              IF a = None THEN Err("InvalidOperation")
              ELSE ParseFrom(SubSeq(string, nd + 2, Len(string)),
                             Append(data, Item(StrInt(SubSeq(string, 1, nd)),
                                               a[1], FALSE)))

CigarParse(string) == ParseFrom(string, <<>>)

\* Cigar.coerce of a str, and of a list or tuple
CoerceStr(string) == CigarParse(string)

CoerceList(lst) == Cigar(lst)

\* Cigar.from_msa; "-" is the gap
from_msa(reference, query) ==
    IF Len(reference) # Len(query) THEN Err("ParseError")
    ELSE LET RECURSIVE ops(_)
             ops(i) ==
                 IF i > Len(reference) THEN <<>>
                 ELSE (IF reference[i] = "-" /\ query[i] = "-" THEN <<>>
                       ELSE IF reference[i] = "-"
                            THEN <<Item(1, INSERT, FALSE)>>
                       ELSE IF query[i] = "-"
                            THEN <<Item(1, DELETE, FALSE)>>
                       ELSE <<Item(1, MATCH, FALSE)>>)
                      \o ops(i + 1)
         IN  Cigar(ops(1))

\* to_msa that writes no gap into the query row for an operation without
\* a query pointer
RECURSIVE ToMsaNoQueryGapFrom(_, _, _, _, _, _)
ToMsaNoQueryGapFrom(ps, i, reference_seq, query_seq, reference_msa, query_msa) ==
    IF i > Len(ps) THEN Ok(<<reference_msa, query_msa>>)
    ELSE LET p == ps[i] IN
         IF p.r = None /\ p.q = None
         THEN ToMsaNoQueryGapFrom(ps, i + 1, reference_seq, query_seq,
                                  reference_msa, query_msa)
         ELSE IF p.r # None /\ p.r[1] >= Len(reference_seq)
         THEN Err("MSALength")
         ELSE IF p.q # None /\ p.q[1] >= Len(query_seq)
         THEN Err("MSALength")
         ELSE ToMsaNoQueryGapFrom(ps, i + 1, reference_seq, query_seq,
                  Append(reference_msa,
                         IF p.r # None THEN reference_seq[p.r[1] + 1] ELSE "-"),
                  IF p.q # None THEN Append(query_msa, query_seq[p.q[1] + 1])
                  ELSE query_msa)

\* the loop of Cigar.to_msa from operation i on; a pointer p is the
\* 0-based index of a character, seq[p] raising IndexError (turned into
\* MSALengthError) when p >= len(seq)
RECURSIVE ToMsaFrom(_, _, _, _, _, _)
ToMsaFrom(ps, i, reference_seq, query_seq, reference_msa, query_msa) ==
    IF i > Len(ps) THEN Ok(<<reference_msa, query_msa>>)
    ELSE LET p == ps[i] IN
         IF p.r = None /\ p.q = None
         THEN ToMsaFrom(ps, i + 1, reference_seq, query_seq,
                        reference_msa, query_msa)
         ELSE IF p.r # None /\ p.r[1] >= Len(reference_seq)
         THEN Err("MSALength")
         ELSE IF p.q # None /\ p.q[1] >= Len(query_seq)
         THEN Err("MSALength")
         ELSE ToMsaFrom(ps, i + 1, reference_seq, query_seq,
                  Append(reference_msa,
                         IF p.r # None THEN reference_seq[p.r[1] + 1] ELSE "-"),
                  Append(query_msa,
                         IF p.q # None THEN query_seq[p.q[1] + 1] ELSE "-"))

\* Cigar.to_msa
to_msa(c, reference_seq, query_seq) ==
    ToMsaFrom(iterate_operations_with_pointers(c), 1,
              reference_seq, query_seq, <<>>, <<>>)

----------------------------------------------------------------------------
(* Exact rationals (fractions.Fraction) as [n |-> numerator,               *)
(* d |-> denominator], d > 0, not necessarily in lowest terms              *)

Frac(n, d) == [n |-> n, d |-> d]

\* Fraction.denominator == 1, of the fraction in lowest terms
FracIsInt(x) == x.n % x.d = 0

\* math.floor and math.ceil
Floor(x) == x.n \div x.d

Ceil(x) == IF x.n % x.d = 0 THEN x.n \div x.d ELSE (x.n \div x.d) + 1

FracLt(x, y) == x.n * y.d < y.n * x.d

FracAdd(x, y) == Frac(x.n * y.d + y.n * x.d, x.d * y.d)

FracSub(x, y) == Frac(x.n * y.d - y.n * x.d, x.d * y.d)

FracMul(x, y) == Frac(x.n * y.n, x.d * y.d)

FracOfInt(i) == Frac(i, 1)

----------------------------------------------------------------------------
(* CigarHit (cigar_hit.py)                                                 *)

\* intervals_overlap, of inclusive intervals <<x0, x1>> and <<y0, y1>>
intervals_overlap(x, y) == x[1] <= y[2] /\ x[2] >= y[1]

Hit(cigar, r_st, r_ei, q_st, q_ei) ==
    [cigar |-> cigar, r_st |-> r_st, r_ei |-> r_ei,
     q_st |-> q_st, q_ei |-> q_ei]

\* CigarHit.ref_length and CigarHit.query_length (of the intervals)
HitRefLength(h) == (h.r_ei + 1) - h.r_st

HitQueryLength(h) == (h.q_ei + 1) - h.q_st

\* __post_init__ that checks the reference length only
CigarHitNoQueryCheck(cigar, r_st, r_ei, q_st, q_ei) ==
    LET h == Hit(cigar, r_st, r_ei, q_st, q_ei) IN
    IF HitRefLength(h) # ref_length(cigar) THEN Err("CigarHitRange")
    ELSE Ok(h)

\* the dataclass constructor with CigarHit.__post_init__
CigarHit(cigar, r_st, r_ei, q_st, q_ei) ==
    LET h == Hit(cigar, r_st, r_ei, q_st, q_ei) IN
    IF HitRefLength(h) # ref_length(cigar) THEN Err("CigarHitRange")
    ELSE IF HitQueryLength(h) # query_length(cigar)
         THEN Err("CigarHitRange")
    ELSE Ok(h)

\* the dataclass __eq__: the five fields, the Cigars by Cigar.__eq__
HitEq(a, b) ==
    /\ CigarEq(a.cigar, b.cigar)
    /\ a.r_st = b.r_st /\ a.r_ei = b.r_ei
    /\ a.q_st = b.q_st /\ a.q_ei = b.q_ei

\* from_default_alignment with the insertions before the deletions
from_default_alignment_insert_first(r_st, r_ei, q_st, q_ei) ==
    LET items == <<[num |-> q_ei - q_st + 1, op |-> 1, raw |-> FALSE],
                   [num |-> r_ei - r_st + 1, op |-> 2, raw |-> FALSE]>>
        cigar == Cigar(items)
    IN  IF ~IsOk(cigar) THEN cigar
        ELSE CigarHit(cigar.val, r_st, r_ei, q_st, q_ei)

\* CigarHit.from_default_alignment
from_default_alignment(r_st, r_ei, q_st, q_ei) ==
    LET cigar == CoerceList(<<Item(r_ei - r_st + 1, DELETE, FALSE),
                              Item(q_ei - q_st + 1, INSERT, FALSE)>>)
    IN  IF ~IsOk(cigar) THEN cigar
        ELSE CigarHit(cigar.val, r_st, r_ei, q_st, q_ei)

overlaps_in_query(a, b) ==
    intervals_overlap(<<a.q_st, a.q_ei>>, <<b.q_st, b.q_ei>>)

overlaps_in_reference(a, b) ==
    intervals_overlap(<<a.r_st, a.r_ei>>, <<b.r_st, b.r_ei>>)

touches_in_query(a, b) == a.q_ei + 1 = b.q_st

touches_in_reference(a, b) == a.r_ei + 1 = b.r_st

\* __add__ that asks for touching in the query only
HitAddQueryOnly(a, b) ==
    IF a.q_ei + 1 # b.q_st
    THEN Err("CigarConnect")
    ELSE LET cigar == Cigar(a.cigar \o b.cigar) IN
         IF ~IsOk(cigar) THEN cigar
         ELSE CigarHit(cigar.val, a.r_st, b.r_ei, a.q_st, b.q_ei)

\* __add__ that asks for touching in the query or in the reference
HitAddEitherAxis(a, b) ==
    IF ~(a.q_ei + 1 = b.q_st \/ a.r_ei + 1 = b.r_st)
    THEN Err("CigarConnect")
    ELSE LET cigar == Cigar(a.cigar \o b.cigar) IN
         IF ~IsOk(cigar) THEN cigar
         ELSE CigarHit(cigar.val, a.r_st, b.r_ei, a.q_st, b.q_ei)

\* __add__ that adds the two hits in whichever order they touch
HitAddEitherOrder(a, b) ==
    LET x == IF a.q_ei + 1 = b.q_st /\ a.r_ei + 1 = b.r_st THEN a ELSE b
        y == IF a.q_ei + 1 = b.q_st /\ a.r_ei + 1 = b.r_st THEN b ELSE a
    IN  IF ~(x.q_ei + 1 = y.q_st /\ x.r_ei + 1 = y.r_st)
        THEN Err("CigarConnect")
        ELSE LET cigar == Cigar(x.cigar \o y.cigar) IN
             IF ~IsOk(cigar) THEN cigar
             ELSE CigarHit(cigar.val, x.r_st, y.r_ei, x.q_st, y.q_ei)

\* CigarHit.__add__
HitAdd(a, b) ==
    IF ~(touches_in_query(a, b) /\ touches_in_reference(a, b))
    THEN Err("CigarConnect")
    ELSE LET cigar == CigarAdd(a.cigar, b.cigar) IN
         IF ~IsOk(cigar) THEN cigar
         ELSE CigarHit(cigar.val, a.r_st, b.r_ei, a.q_st, b.q_ei)

\* connect whose filler aligns the two gaps when they have the same
\* length (matches instead of deletions and insertions)
connect_aligning_filler(a, b) ==
    IF overlaps_in_query(a, b) \/ overlaps_in_reference(a, b)
    THEN Err("CigarConnect")
    ELSE LET rl == b.r_st - a.r_ei - 1
             filler == IF rl > 0 /\ rl = b.q_st - a.q_ei - 1
                       THEN CigarHit(<<Item(rl, MATCH, FALSE)>>,
                                     a.r_ei + 1, b.r_st - 1,
                                     a.q_ei + 1, b.q_st - 1)
                       ELSE from_default_alignment(a.r_ei + 1, b.r_st - 1,
                                                   a.q_ei + 1, b.q_st - 1)
         IN  IF ~IsOk(filler) THEN filler
             ELSE LET af == HitAdd(a, filler.val) IN
                  IF ~IsOk(af) THEN af ELSE HitAdd(af.val, b)

\* CigarHit.connect: self + filler + other
connect(a, b) ==
    IF overlaps_in_query(a, b) \/ overlaps_in_reference(a, b)
    THEN Err("CigarConnect")
    ELSE LET filler == from_default_alignment(a.r_ei + 1, b.r_st - 1,
                                              a.q_ei + 1, b.q_st - 1)
         IN  IF ~IsOk(filler) THEN filler
             ELSE LET af == HitAdd(a, filler.val) IN
                  IF ~IsOk(af) THEN af ELSE HitAdd(af.val, b)

\* CigarHit.coordinate_mapping
HitCoordinateMapping(h) ==
    CoordTranslate(coordinate_mapping(h.cigar), h.r_st, h.q_st)

\* CigarHit.epsilon
epsilon(h) == Frac(1, op_length(h.cigar) * 3 + 1)

\* lerp of CigarHit._ref_cut_to_op_cut: (1 - t) * start + t * end
lerp(start, end, t) ==
    FracAdd(FracMul(FracSub(FracOfInt(1), t), FracOfInt(start)),
            FracMul(t, FracOfInt(end)))

\* _ref_cut_to_op_cut without the disambiguation to the right
ref_cut_to_op_cut_no_epsilon(h, cut_point) ==
    LET mapping == HitCoordinateMapping(h)
        lm == left_max(mapping.ref_to_op, Floor(cut_point))
        rm == right_min(mapping.ref_to_op, Ceil(cut_point))
        left_op_cut_point == IF lm = <<>> THEN 0 - 1 ELSE lm[1]
        right_op_cut_point == IF rm = <<>> THEN op_length(h.cigar) ELSE rm[1]
    IN  lerp(left_op_cut_point, right_op_cut_point,
             FracSub(cut_point, FracOfInt(Floor(cut_point))))

\* _ref_cut_to_op_cut that looks for the left operation from the ceiling
\* of the cut point
ref_cut_to_op_cut_from_ceil(h, cut_point) ==
    LET mapping == HitCoordinateMapping(h)
        lm == left_max(mapping.ref_to_op, Ceil(cut_point))
        rm == right_min(mapping.ref_to_op, Ceil(cut_point))
        left_op_cut_point == IF lm = None THEN 0 - 1 ELSE lm[1]
        right_op_cut_point == IF rm = None THEN op_length(h.cigar) ELSE rm[1]
        op_cut_point == lerp(left_op_cut_point, right_op_cut_point,
                             FracSub(cut_point, FracOfInt(Floor(cut_point))))
    IN  IF FracIsInt(op_cut_point) THEN FracAdd(op_cut_point, epsilon(h))
        ELSE op_cut_point

\* CigarHit._ref_cut_to_op_cut.  float(x).is_integer() is exact for the
\* small numerators and denominators of the model
ref_cut_to_op_cut(h, cut_point) ==
    LET mapping == HitCoordinateMapping(h)
        lm == left_max(mapping.ref_to_op, Floor(cut_point))
        rm == right_min(mapping.ref_to_op, Ceil(cut_point))
        left_op_cut_point == IF lm = None THEN 0 - 1 ELSE lm[1]
        right_op_cut_point == IF rm = None THEN op_length(h.cigar) ELSE rm[1]
        op_cut_point == lerp(left_op_cut_point, right_op_cut_point,
                             FracSub(cut_point, FracOfInt(Floor(cut_point))))
    IN  IF FracIsInt(op_cut_point) THEN FracAdd(op_cut_point, epsilon(h))
        ELSE op_cut_point

\* CigarHit._slice
HitSlice(h, r_st, q_st, o_st, o_ei) ==
    LET cigar == slice_operations(h.cigar, o_st, o_ei + 1) IN
    IF ~IsOk(cigar) THEN cigar
    ELSE CigarHit(cigar.val, r_st, r_st + ref_length(cigar.val) - 1,
                  q_st, q_st + query_length(cigar.val) - 1)

\* CigarHit.cut_reference; the value is the pair <<left, right>>
cut_reference(h, cut_point) ==
    IF FracIsInt(cut_point) THEN Err("CigarCut")
    ELSE IF HitRefLength(h) = 0
            \/ ~(FracLt(FracOfInt(h.r_st - 1), cut_point)
                 /\ FracLt(cut_point, FracOfInt(h.r_ei + 1)))
         THEN Err("CigarCut")
    ELSE LET op_fcut_point == ref_cut_to_op_cut(h, cut_point)
             left == HitSlice(h, h.r_st, h.q_st, 0, Floor(op_fcut_point))
         IN  IF ~IsOk(left) THEN left
             ELSE LET right == HitSlice(h, left.val.r_ei + 1,
                                        left.val.q_ei + 1,
                                        Ceil(op_fcut_point),
                                        op_length(h.cigar))
                  IN  IF ~IsOk(right) THEN right
                      ELSE Ok(<<left.val, right.val>>)

\* the hit of a Cigar that ends where the hit h ends (the left strips)
EndAnchored(h, cigar) ==
    IF ~IsOk(cigar) THEN cigar
    ELSE CigarHit(cigar.val, h.r_ei - ref_length(cigar.val) + 1, h.r_ei,
                  h.q_ei - query_length(cigar.val) + 1, h.q_ei)

\* the hit of a Cigar that starts where the hit h starts (the right strips)
StartAnchored(h, cigar) ==
    IF ~IsOk(cigar) THEN cigar
    ELSE CigarHit(cigar.val, h.r_st, h.r_st + ref_length(cigar.val) - 1,
                  h.q_st, h.q_st + query_length(cigar.val) - 1)

\* rstrip_query that strips the left side of the Cigar as well
HitRstripQueryBothSides(h) ==
    StartAnchored(h, CigarRstripQuery(CigarLstripQuery(h.cigar).val))

\* lstrip_query that keeps the start of the hit instead of its end
HitLstripQueryFromStart(h) == StartAnchored(h, CigarLstripQuery(h.cigar))

\* CigarHit.lstrip_query, rstrip_query, lstrip_reference, rstrip_reference
HitLstripQuery(h) == EndAnchored(h, CigarLstripQuery(h.cigar))

HitRstripQuery(h) == StartAnchored(h, CigarRstripQuery(h.cigar))

HitLstripReference(h) == EndAnchored(h, CigarLstripReference(h.cigar))

HitRstripReference(h) == StartAnchored(h, CigarRstripReference(h.cigar))

\* sorted(S) of a finite set of integers
RECURSIVE SortedSeq(_)
SortedSeq(S) ==
    IF S = {} THEN <<>>
    ELSE LET m == SetMin(S) IN <<m>> \o SortedSeq(S \ {m})

\* {v: k for k, v in d.items()}: the items come in the order the keys were
\* inserted, ascending, so the largest key of a value is the one that stays
InverseDict(d) ==
    [v \in {d.dict[k] : k \in Keys(d)}
        |-> SetMax({k \in Keys(d) : d.dict[k] = v})]

\* the operation indices of _gaps without the None that closes the loop
GapIndicesNoNone(m) ==
    LET s == SortedSeq(m.query_to_op.codomain) IN
    [i \in 1..Len(s) |-> Some(s[i])]

\* sorted(self.coordinate_mapping.query_to_op.codomain) + [None]
GapIndices(m) ==
    LET s == SortedSeq(m.query_to_op.codomain) IN
    [i \in 1..Len(s) |-> Some(s[i])] \o <<None>>

\* CigarHit._gaps: the list of the hits it yields, or the error of the first
\* CigarHit that cannot be built.  st is the loop state: q and r are
\* last_query_index and last_ref_index, gap is the Optional gap_start
Gaps(h, is_deletions) ==
    LET m == HitCoordinateMapping(h)
        op_to_ref == InverseDict(m.ref_to_op)
        op_to_query == InverseDict(m.query_to_op)
        present == IF is_deletions THEN op_to_ref ELSE op_to_query
        missing == IF is_deletions THEN op_to_query ELSE op_to_ref
        idx == GapIndices(m)
        RECURSIVE walk(_, _)
        walk(i, st) ==
            IF i > Len(idx) \/ ~IsOk(st.out) THEN st.out
            ELSE
            LET op_index == idx[i]
                in_gap == /\ op_index # None
                          /\ op_index[1] \in DOMAIN present
                          /\ op_index[1] \notin DOMAIN missing
                closes == ~in_gap /\ st.gap # None
                \* if op_index is None: op_index = -1
                op_index2 == IF closes /\ op_index = None
                             THEN Some(0 - 1) ELSE op_index
                cigar == slice_operations(h.cigar, st.gap[1], op_index2[1])
                q_st == IF is_deletions THEN st.q ELSE present[st.gap[1]]
                r_st == IF is_deletions THEN present[st.gap[1]] ELSE st.r
                hit == IF ~IsOk(cigar) THEN cigar
                       ELSE CigarHit(cigar.val,
                                     r_st, r_st + ref_length(cigar.val) - 1,
                                     q_st, q_st + query_length(cigar.val) - 1)
                has(d) == op_index2 # None /\ op_index2[1] \in DOMAIN d
            IN  walk(i + 1,
                     [q |-> IF has(op_to_query) THEN op_to_query[op_index2[1]]
                            ELSE st.q,
                      r |-> IF has(op_to_ref) THEN op_to_ref[op_index2[1]]
                            ELSE st.r,
                      gap |-> IF in_gap
                              THEN (IF st.gap = None THEN op_index ELSE st.gap)
                              ELSE None,
                      out |-> IF ~closes THEN st.out
                              ELSE IF ~IsOk(hit) THEN hit
                              ELSE Ok(Append(st.out.val, hit.val))])
    IN  walk(1, [q |-> h.q_st, r |-> h.r_st, gap |-> None, out |-> Ok(<<>>)])

\* CigarHit.deletions
deletions(h) == Gaps(h, TRUE)

\* CigarHit.insertions
insertions(h) == Gaps(h, FALSE)

\* CigarHit.translate
HitTranslate(h, reference_delta, query_delta) ==
    CigarHit(h.cigar, h.r_st + reference_delta, h.r_ei + reference_delta,
             h.q_st + query_delta, h.q_ei + query_delta)

\* CigarHit.__str__: '%s@[%d,%d]->[%d,%d]'
HitStr(h) ==
    CigarStr(h.cigar) \o <<"@", "[">> \o IntStr(h.q_st) \o <<",">>
    \o IntStr(h.q_ei) \o <<"]", "-", ">", "[">> \o IntStr(h.r_st)
    \o <<",">> \o IntStr(h.r_ei) \o <<"]">>

\* s has the characters lits from position pos (1-based) on
HasAt(s, pos, lits) ==
    /\ pos + Len(lits) - 1 <= Len(s)
    /\ SubSeq(s, pos, pos + Len(lits) - 1) = lits

\* the greedy \d+ at position pos of s: the number of digits there
DigitsAt(s, pos) == IF pos > Len(s) THEN 0
                    ELSE DigitsPrefix(SubSeq(s, pos, Len(s)))

\* the part of parse_expr after the cigar group, matched at position pos:
\* @\[(\d+),(\d+)\]->\[(\d+),(\d+)\]; None, or the four numbers
\* <<q_st, q_ei, r_st, r_ei>>
MatchIntervals(s, pos) ==
    LET p1 == pos + 2
        n1 == DigitsAt(s, p1)
        p2 == p1 + n1 + 1
        n2 == DigitsAt(s, p2)
        p3 == p2 + n2 + 4
        n3 == DigitsAt(s, p3)
        p4 == p3 + n3 + 1
        n4 == DigitsAt(s, p4)
    IN  IF /\ HasAt(s, pos, <<"@", "[">>)
           /\ n1 > 0 /\ HasAt(s, p1 + n1, <<",">>)
           /\ n2 > 0 /\ HasAt(s, p2 + n2, <<"]", "-", ">", "[">>)
           /\ n3 > 0 /\ HasAt(s, p3 + n3, <<",">>)
           /\ n4 > 0 /\ HasAt(s, p4 + n4, <<"]">>)
        THEN Some(<<StrInt(SubSeq(s, p1, p1 + n1 - 1)),
                    StrInt(SubSeq(s, p2, p2 + n2 - 1)),
                    StrInt(SubSeq(s, p3, p3 + n3 - 1)),
                    StrInt(SubSeq(s, p4, p4 + n4 - 1))>>)
        ELSE None

\* parse_expr.match(string): the cigar group (?P<cigar>.+) is greedy and
\* takes at least one character, so it ends at the last position after
\* which the intervals match.  None, or <<cigar_str, numbers>>
ParseExprMatch(string) ==
    LET ends == {i \in 1..Len(string) : MatchIntervals(string, i + 1) # None}
    IN  IF ends = {} THEN None
        ELSE LET i == SetMax(ends) IN
             Some(<<SubSeq(string, 1, i), MatchIntervals(string, i + 1)[1]>>)

\* CigarHit.parse
HitParse(string) ==
    LET match == ParseExprMatch(string) IN
    IF match = None THEN Err("ParseError")
    ELSE LET cigar_str == match[1][1]
             q_st == match[1][2][1]
             q_ei == match[1][2][2]
             r_st == match[1][2][3]
             r_ei == match[1][2][4]
         IN  IF q_st > q_ei + 1 THEN Err("ParseError")
             ELSE IF r_st > r_ei + 1 THEN Err("ParseError")
             ELSE LET cigar == CoerceStr(cigar_str) IN
                  IF ~IsOk(cigar) THEN cigar
                  ELSE CigarHit(cigar.val, r_st, r_ei, q_st, q_ei)

----------------------------------------------------------------------------
(* Bounded inputs of the Cigar operations                                  *)

MaxItems == 3      \* items in a tuple list given to Cigar(...)
MaxCount == 2      \* the largest count in an input item
MaxOpLen == 3      \* the longest Cigar (in operations) a caller keeps
MaxStrLen == 3     \* characters in a string given to Cigar.parse
MaxMsaLen == 2     \* columns of an alignment given to Cigar.from_msa

\* one operation of each pointer behaviour: both axes, query only,
\* reference only, neither
ModelOps == {MATCH, INSERT, DELETE, HARD_CLIPPED}

\* sequences over S of length at most n
SeqsUpTo(S, n) == UNION {[1..k -> S] : k \in 0..n}

\* the operations given as plain ints (0 for MATCH) rather than as members
\* of CigarActions
RawOps == {MATCH}

InputItems ==
    {Item(n, a, FALSE) : n \in 0..MaxCount, a \in ModelOps}
    \cup {Item(n, a, TRUE) : n \in 0..MaxCount, a \in RawOps}

TupleLists == SeqsUpTo(InputItems, MaxItems)

ParseAlphabet == {"0", "1", "2", "M", "D", "Z"}

ParseStrings == SeqsUpTo(ParseAlphabet, MaxStrLen)

MsaAlphabet == {"A", "C", "-"}

MsaStrings == SeqsUpTo(MsaAlphabet, MaxMsaLen)

\* the Cigars of at most one run, the right operands of a concatenation
UnitCigars == {normalize(l).val : l \in SeqsUpTo(InputItems, 1)}

SliceBounds == (0 - MaxOpLen - 1)..(MaxOpLen + 1)

----------------------------------------------------------------------------
(* SpecCigar: a caller that builds Cigars and keeps transforming the one   *)
(* it holds.  inp.c is the Cigar held, inp.x the argument of the last      *)
(* call, out what the call returned or raised.  A call is made when the    *)
(* caller is idle (the previous result was kept or dropped).               *)

CigarProducers == {"Cigar", "parse", "coerce_str", "coerce_list", "from_msa",
                   "add", "slice_operations", "lstrip_query", "rstrip_query",
                   "lstrip_reference", "rstrip_reference"}

InitCigar ==
    /\ inp = [c |-> <<>>, x |-> <<>>]
    /\ op = "init"
    /\ out = Cigar(<<>>)

Idle == op \in {"init", "keep"}

\* Cigar(data) and Cigar.coerce(data) of a tuple list
Construct ==
    /\ op = "init"
    /\ \E lst \in TupleLists :
           /\ inp' = [c |-> <<>>, x |-> lst]
           /\ \/ op' = "Cigar" /\ out' = Cigar(lst)
              \/ op' = "coerce_list" /\ out' = CoerceList(lst)

\* Cigar.parse(string) and Cigar.coerce(string)
Parse ==
    /\ op = "init"
    /\ \E s \in ParseStrings :
           /\ inp' = [c |-> <<>>, x |-> s]
           /\ \/ op' = "parse" /\ out' = CigarParse(s)
              \/ op' = "coerce_str" /\ out' = CoerceStr(s)

\* Cigar.from_msa(reference, query)
FromMsa ==
    /\ op = "init"
    /\ \E r \in MsaStrings, q \in MsaStrings :
           /\ inp' = [c |-> <<>>, x |-> <<r, q>>]
           /\ op' = "from_msa"
           /\ out' = from_msa(r, q)

\* the caller keeps the Cigar the last call returned
Keep ==
    /\ op \in CigarProducers
    /\ IsOk(out)
    /\ op_length(out.val) <= MaxOpLen
    /\ inp' = [c |-> out.val, x |-> <<>>]
    /\ op' = "keep"
    /\ out' = Ok(out.val)

\* the caller drops what the last call returned or raised
Drop ==
    /\ ~Idle
    /\ inp' = [c |-> inp.c, x |-> <<>>]
    /\ op' = "keep"
    /\ out' = Ok(inp.c)

\* self + other
Concat ==
    /\ Idle
    /\ \E other \in UnitCigars :
           /\ inp' = [c |-> inp.c, x |-> other]
           /\ op' = "add"
           /\ out' = CigarAdd(inp.c, other)

\* self.slice_operations(a, b)
Slice ==
    /\ Idle
    /\ \E a \in SliceBounds, b \in SliceBounds :
           /\ inp' = [c |-> inp.c, x |-> <<a, b>>]
           /\ op' = "slice_operations"
           /\ out' = slice_operations(inp.c, a, b)

\* the four strips of self
Strip ==
    /\ Idle
    /\ inp' = [c |-> inp.c, x |-> <<>>]
    /\ \/ op' = "lstrip_query" /\ out' = CigarLstripQuery(inp.c)
       \/ op' = "rstrip_query" /\ out' = CigarRstripQuery(inp.c)
       \/ op' = "lstrip_reference" /\ out' = CigarLstripReference(inp.c)
       \/ op' = "rstrip_reference" /\ out' = CigarRstripReference(inp.c)

\* Cigar.parse(str(self)) and Cigar.coerce(str(self))
Reparse ==
    /\ Idle
    /\ inp' = [c |-> inp.c, x |-> CigarStr(inp.c)]
    /\ \/ op' = "parse_str" /\ out' = CigarParse(CigarStr(inp.c))
       \/ op' = "coerce_str_str" /\ out' = CoerceStr(CigarStr(inp.c))

NextCigar ==
    \/ Construct \/ Parse \/ FromMsa \/ Keep \/ Drop
    \/ Concat \/ Slice \/ Strip \/ Reparse

SpecCigar == InitCigar /\ [][NextCigar]_vars

----------------------------------------------------------------------------
(* C3: every Cigar value, however produced, is canonical: every stored     *)
(* count is at least 1 and no two adjacent pairs have the same operation.  *)
(* Checked of every Cigar a producer returns and of every Cigar kept.      *)

Canonical(c) ==
    /\ \A i \in 1..Len(c) : c[i].num >= 1
    /\ \A i \in 1..(Len(c) - 1) : c[i].op # c[i + 1].op

\* the decoded operations of a tuple list, zero counts contributing none
RECURSIVE Expand(_)
Expand(lst) ==
    IF lst = <<>> THEN <<>>
    ELSE [k \in 1..lst[1].num |-> lst[1].op] \o Expand(Tail(lst))

DecodedOps(c) == LET ops == iterate_operations(c) IN
                 [k \in 1..Len(ops) |-> ops[k].op]

C3_CigarCanonical ==
    /\ Canonical(inp.c)
    /\ (op \in CigarProducers /\ IsOk(out)) => Canonical(out.val)
    /\ (op \in {"Cigar", "coerce_list"}) =>
           /\ IsOk(out)
           /\ DecodedOps(out.val) = Expand(inp.x)

\* a tuple list with a zero count and two adjacent equal operations was
\* given to the constructor
C3_Witness ==
    /\ op = "Cigar"
    /\ IsOk(out)
    /\ \E i \in 1..Len(inp.x) : inp.x[i].num = 0
    /\ \E i \in 1..(Len(inp.x) - 1) :
           inp.x[i].op = inp.x[i + 1].op /\ inp.x[i].num > 0
                                         /\ inp.x[i + 1].num > 0

----------------------------------------------------------------------------
(* C6: for every Cigar c, Cigar.parse(str(c)) == c and                     *)
(* Cigar.coerce(str(c)) == c.                                              *)

C6_StrParseRoundTrip ==
    (op \in {"parse_str", "coerce_str_str"}) =>
        IsOk(out) /\ CigarEq(out.val, inp.c)

----------------------------------------------------------------------------
(* SpecMonoid: a caller holding three Cigars a, b, c concatenates them in  *)
(* the two groupings, and each with the empty Cigar.                       *)

MaxMonoidLen == 2   \* operations in each of the three Cigars

MonoidOps == {MATCH, INSERT, DELETE}

MonoidCigars ==
    {normalize(l).val :
        l \in SeqsUpTo({Item(1, a, FALSE) : a \in MonoidOps}, MaxMonoidLen)}

\* the empty Cigar, Cigar([])
EmptyCigar == Cigar(<<>>).val

\* (a + b) + c and a + (b + c)
AddLeftFirst(a, b, c) == CigarAdd(CigarAdd(a, b).val, c)

AddRightFirst(a, b, c) == CigarAdd(a, CigarAdd(b, c).val)

InitMonoid ==
    /\ inp \in [a : MonoidCigars, b : MonoidCigars, c : MonoidCigars]
    /\ op = "init"
    /\ out = Ok(<<>>)

GroupLeft ==
    /\ op = "init"
    /\ op' = "(a+b)+c"
    /\ out' = AddLeftFirst(inp.a, inp.b, inp.c)
    /\ UNCHANGED inp

GroupRight ==
    /\ op = "init"
    /\ op' = "a+(b+c)"
    /\ out' = AddRightFirst(inp.a, inp.b, inp.c)
    /\ UNCHANGED inp

EmptyLeft ==
    /\ op = "init"
    /\ op' = "e+a"
    /\ out' = CigarAdd(EmptyCigar, inp.a)
    /\ UNCHANGED inp

EmptyRight ==
    /\ op = "init"
    /\ op' = "a+e"
    /\ out' = CigarAdd(inp.a, EmptyCigar)
    /\ UNCHANGED inp

NextMonoid == GroupLeft \/ GroupRight \/ EmptyLeft \/ EmptyRight

SpecMonoid == InitMonoid /\ [][NextMonoid]_vars

(* C4: Cigar concatenation is a monoid: (a + b) + c == a + (b + c), and    *)
(* the empty Cigar e satisfies e + a == a == a + e.  The result of each    *)
(* grouping is compared with the result of the other.                      *)

C4_CigarMonoid ==
    /\ (op = "(a+b)+c") =>
           /\ IsOk(out)
           /\ IsOk(AddRightFirst(inp.a, inp.b, inp.c))
           /\ CigarEq(out.val, AddRightFirst(inp.a, inp.b, inp.c).val)
    /\ (op = "a+(b+c)") =>
           /\ IsOk(out)
           /\ IsOk(AddLeftFirst(inp.a, inp.b, inp.c))
           /\ CigarEq(out.val, AddLeftFirst(inp.a, inp.b, inp.c).val)
    /\ (op \in {"e+a", "a+e"}) => IsOk(out) /\ CigarEq(out.val, inp.a)

\* a grouping in which the runs at both seams merge
C4_Witness ==
    /\ op = "(a+b)+c"
    /\ IsOk(out)
    /\ Len(inp.a) = 2 /\ Len(inp.b) = 1 /\ Len(inp.c) = 2
    /\ Len(out.val) = 3

----------------------------------------------------------------------------
(* SpecHit: a caller that constructs one CigarHit, keeps it, and cuts or   *)
(* serializes it.  inp.h is the hit held (None before one is kept), inp.x  *)
(* the arguments of the last call.                                         *)

MaxHitOps == 3     \* operations in the Cigar of the hit
MaxStart == 1      \* the largest r_st and q_st of the hit
MaxDen == 3        \* the largest denominator of a cut point

\* Cigars of at most n operations over the operations S
CigarsUpTo(S, n) ==
    {normalize(l).val : l \in SeqsUpTo({Item(1, a, FALSE) : a \in S}, n)}

HitCigars == CigarsUpTo(ModelOps, MaxHitOps)

\* how far a constructor argument is from the end the Cigar asks for
EndDeltas == {0 - 1, 0, 1}

\* cut points k + n/d around the reference interval of a hit, the integers
\* (n = 0) and the points outside the interval included
CutPoints(h) ==
    UNION {{Frac(k * d + n, d) : k \in (h.r_st - 2)..(h.r_ei + 1),
                                 n \in 0..(d - 1)} : d \in 2..MaxDen}

InitHit ==
    /\ inp = [h |-> None, x |-> <<>>]
    /\ op = "init"
    /\ out = Ok(<<>>)

\* CigarHit(cigar, r_st, r_ei, q_st, q_ei)
NewHit ==
    /\ op = "init"
    /\ \E cigar \in HitCigars, r_st \in 0..MaxStart, q_st \in 0..MaxStart,
          dr \in EndDeltas, dq \in EndDeltas :
           LET r_ei == r_st + ref_length(cigar) - 1 + dr
               q_ei == q_st + query_length(cigar) - 1 + dq
           IN  /\ inp' = [h |-> None, x |-> Hit(cigar, r_st, r_ei, q_st, q_ei)]
               /\ op' = "CigarHit"
               /\ out' = CigarHit(cigar, r_st, r_ei, q_st, q_ei)

\* CigarHit.from_default_alignment(r_st, r_ei, q_st, q_ei)
NewDefault ==
    /\ op = "init"
    /\ \E r_st \in 0..MaxStart, q_st \in 0..MaxStart,
          rl \in 0..MaxHitOps, ql \in 0..MaxHitOps :
           /\ inp' = [h |-> None, x |-> <<r_st, r_st + rl - 1,
                                          q_st, q_st + ql - 1>>]
           /\ op' = "from_default_alignment"
           /\ out' = from_default_alignment(r_st, r_st + rl - 1,
                                            q_st, q_st + ql - 1)

\* the caller keeps the hit the constructor returned
KeepHit ==
    /\ op \in {"CigarHit", "from_default_alignment"}
    /\ IsOk(out)
    /\ inp' = [h |-> Some(out.val), x |-> <<>>]
    /\ op' = "keep"
    /\ out' = out

\* h.cut_reference(cut_point)
Cut ==
    /\ op = "keep"
    /\ \E c \in CutPoints(inp.h[1]) :
           /\ inp' = [h |-> inp.h, x |-> c]
           /\ op' = "cut_reference"
           /\ out' = cut_reference(inp.h[1], c)

\* CigarHit.parse(str(h))
ReparseHit ==
    /\ op = "keep"
    /\ inp' = [h |-> inp.h, x |-> HitStr(inp.h[1])]
    /\ op' = "parse_str"
    /\ out' = HitParse(HitStr(inp.h[1]))

NextHit == NewHit \/ NewDefault \/ KeepHit \/ Cut \/ ReparseHit

SpecHit == InitHit /\ [][NextHit]_vars

----------------------------------------------------------------------------
(* C1: for every hit h and every valid non-integer cut point c             *)
(* (h.ref_length > 0 and h.r_st - 1 < c < h.r_ei + 1), with                *)
(* (left, right) = h.cut_reference(c), left + right is defined and equals  *)
(* h.                                                                      *)

ValidCut(h, c) ==
    /\ ~FracIsInt(c)
    /\ HitRefLength(h) > 0
    /\ FracLt(FracOfInt(h.r_st - 1), c)
    /\ FracLt(c, FracOfInt(h.r_ei + 1))

C1_CutComposes ==
    (op = "cut_reference" /\ ValidCut(inp.h[1], inp.x)) =>
        /\ IsOk(out)
        /\ IsOk(HitAdd(out.val[1], out.val[2]))
        /\ HitEq(HitAdd(out.val[1], out.val[2]).val, inp.h[1])

\* the hit 1M1I1M cut half way between its two reference positions: the
\* operation cut point is the integer 1 (the insertion), the epsilon moves
\* it right and the insertion goes to the left part
C1_Witness ==
    /\ op = "cut_reference"
    /\ ValidCut(inp.h[1], inp.x)
    /\ IsOk(out)
    /\ DecodedOps(inp.h[1].cigar) = <<MATCH, INSERT, MATCH>>
    /\ inp.x.d = 2
    /\ DecodedOps(out.val[1].cigar) = <<MATCH, INSERT>>
    /\ DecodedOps(out.val[2].cigar) = <<MATCH>>

----------------------------------------------------------------------------
(* C2: every CigarHit value that exists satisfies                          *)
(* r_ei - r_st + 1 == cigar.ref_length and                                 *)
(* q_ei - q_st + 1 == cigar.query_length, the lengths being the sums of    *)
(* the counts of the reference-consuming / query-consuming operations;     *)
(* constructing a hit whose endpoints violate either equality fails with   *)
(* CigarHitRange and yields no value.                                      *)

RECURSIVE SumCounts(_, _)
SumCounts(c, S) ==
    IF c = <<>> THEN 0
    ELSE (IF c[1].op \in S THEN c[1].num ELSE 0) + SumCounts(Tail(c), S)

RefConsuming == {MATCH, DELETE, SKIPPED, SEQ_MATCH, MISMATCH}

QueryConsuming == {MATCH, INSERT, SOFT_CLIPPED, SEQ_MATCH, MISMATCH}

WellFormed(h) ==
    /\ h.r_ei - h.r_st + 1 = SumCounts(h.cigar, RefConsuming)
    /\ h.q_ei - h.q_st + 1 = SumCounts(h.cigar, QueryConsuming)

C2_HitRange ==
    /\ inp.h # None => WellFormed(inp.h[1])
    /\ (op \in {"CigarHit", "from_default_alignment", "parse_str"}
          /\ IsOk(out)) => WellFormed(out.val)
    /\ (op = "cut_reference" /\ IsOk(out)) =>
           WellFormed(out.val[1]) /\ WellFormed(out.val[2])
    /\ (op = "CigarHit") =>
           /\ IsOk(out) <=> WellFormed(inp.x)
           /\ ~IsOk(out) => out.kind = "CigarHitRange"

\* the constructor was given a query end that disagrees with the Cigar
\* while the reference end agrees
C2_Witness ==
    /\ op = "CigarHit"
    /\ out.kind = "CigarHitRange"
    /\ inp.x.r_ei - inp.x.r_st + 1 = SumCounts(inp.x.cigar, RefConsuming)
    /\ inp.x.cigar # <<>>

----------------------------------------------------------------------------
(* C5: for every well-formed hit h, CigarHit.parse(str(h)) succeeds and    *)
(* equals h.                                                               *)

C5_HitStrParseRoundTrip ==
    (op = "parse_str") => IsOk(out) /\ HitEq(out.val, inp.h[1])

----------------------------------------------------------------------------
(* SpecPair: a caller holding two hits a and b adds or connects them.      *)
(* a starts at (PairBase, PairBase); b starts anywhere in                  *)
(* 0..MaxPairStart on each axis, so that b may touch a, leave a gap,       *)
(* overlap a or lie before it.                                             *)

MaxPairOps == 2     \* operations in the Cigar of each hit
MaxPairStart == 3   \* the largest r_st and q_st of b

PairOps == {MATCH, INSERT, DELETE}

PairCigars == CigarsUpTo(PairOps, MaxPairOps)

\* the hit of a Cigar placed at (r_st, q_st), built by the constructor
Placed(cigar, r_st, q_st) ==
    CigarHit(cigar, r_st, r_st + ref_length(cigar) - 1,
             q_st, q_st + query_length(cigar) - 1).val

\* where a starts on both axes
PairBase == 1

InitPair ==
    /\ \E ca \in PairCigars, cb \in PairCigars,
          r_st \in 0..MaxPairStart, q_st \in 0..MaxPairStart :
           inp = [a |-> Placed(ca, PairBase, PairBase),
                  b |-> Placed(cb, r_st, q_st)]
    /\ op = "init"
    /\ out = Ok(<<>>)

\* a + b
Add ==
    /\ op = "init"
    /\ op' = "add"
    /\ out' = HitAdd(inp.a, inp.b)
    /\ UNCHANGED inp

\* a.connect(b)
Connect ==
    /\ op = "init"
    /\ op' = "connect"
    /\ out' = connect(inp.a, inp.b)
    /\ UNCHANGED inp

NextPair == Add \/ Connect

SpecPair == InitPair /\ [][NextPair]_vars

----------------------------------------------------------------------------
(* C7: a + b is defined exactly when a.q_ei + 1 == b.q_st and              *)
(* a.r_ei + 1 == b.r_st; when defined the result is the hit                *)
(* (a.cigar + b.cigar, a.r_st, b.r_ei, a.q_st, b.q_ei); when not defined   *)
(* the operation fails with a CigarConnect / CigarAdd error.               *)

C7_AddDefinedWhenTouching ==
    (op = "add") =>
        /\ IsOk(out) <=> (inp.a.q_ei + 1 = inp.b.q_st
                          /\ inp.a.r_ei + 1 = inp.b.r_st)
        /\ IsOk(out) =>
               /\ CigarEq(out.val.cigar,
                          CigarAdd(inp.a.cigar, inp.b.cigar).val)
               /\ out.val.r_st = inp.a.r_st /\ out.val.r_ei = inp.b.r_ei
               /\ out.val.q_st = inp.a.q_st /\ out.val.q_ei = inp.b.q_ei
        /\ ~IsOk(out) => out.kind \in {"CigarConnect", "CigarAdd"}

\* two touching non-empty hits whose adjacent runs merge were added
C7_Witness ==
    /\ op = "add"
    /\ IsOk(out)
    /\ inp.a.cigar # <<>> /\ inp.b.cigar # <<>>
    /\ Len(out.val.cigar) < Len(inp.a.cigar) + Len(inp.b.cigar)

----------------------------------------------------------------------------
(* C9: for hits a and b that overlap on neither axis, with b after a on    *)
(* both axes, a.connect(b) equals a + filler + b, the filler being         *)
(* (b.r_st - a.r_ei - 1) Deletes followed by (b.q_st - a.q_ei - 1) Inserts *)
(* covering exactly the gap; the result spans a.r_st..b.r_ei and           *)
(* a.q_st..b.q_ei.  If a and b overlap (inclusive intervals) in query or   *)
(* in reference, connect fails with CigarConnect.                          *)

Overlap(x0, x1, y0, y1) == x0 <= y1 /\ x1 >= y0

OverlapOnAnAxis(a, b) ==
    \/ Overlap(a.q_st, a.q_ei, b.q_st, b.q_ei)
    \/ Overlap(a.r_st, a.r_ei, b.r_st, b.r_ei)

RefGap(a, b) == b.r_st - a.r_ei - 1

QueryGap(a, b) == b.q_st - a.q_ei - 1

Repeat(x, n) == [k \in 1..n |-> x]

C9_ConnectFillsGap ==
    (op = "connect") =>
        /\ (~OverlapOnAnAxis(inp.a, inp.b)
              /\ inp.b.r_st > inp.a.r_ei /\ inp.b.q_st > inp.a.q_ei) =>
               /\ IsOk(out)
               /\ Canonical(out.val.cigar)
               /\ DecodedOps(out.val.cigar)
                      = DecodedOps(inp.a.cigar)
                        \o Repeat(DELETE, RefGap(inp.a, inp.b))
                        \o Repeat(INSERT, QueryGap(inp.a, inp.b))
                        \o DecodedOps(inp.b.cigar)
               /\ out.val.r_st = inp.a.r_st /\ out.val.r_ei = inp.b.r_ei
               /\ out.val.q_st = inp.a.q_st /\ out.val.q_ei = inp.b.q_ei
        /\ OverlapOnAnAxis(inp.a, inp.b) => out.kind = "CigarConnect"

\* two non-empty hits with a gap on both axes were connected
C9_Witness ==
    /\ op = "connect"
    /\ IsOk(out)
    /\ inp.a.cigar # <<>> /\ inp.b.cigar # <<>>
    /\ RefGap(inp.a, inp.b) > 0 /\ QueryGap(inp.a, inp.b) > 0

----------------------------------------------------------------------------
(* C10 as stated: when a.connect(b) is called on hits that do not overlap  *)
(* on either axis but for which the reference gap or the query gap is      *)
(* negative, the call fails and the error kind is CigarHitRange.           *)

NegativeGap(a, b) ==
    /\ ~OverlapOnAnAxis(a, b)
    /\ (RefGap(a, b) < 0 \/ QueryGap(a, b) < 0)

C10_NegativeGapIsHitRange ==
    (op = "connect" /\ NegativeGap(inp.a, inp.b)) =>
        out.kind = "CigarHitRange"

(* C10 as amended: in that case the call fails and the error kind is       *)
(* InvalidOperation, raised by Cigar.normalize for the negative count      *)
(* before the filler hit is constructed.                                   *)

C10_NegativeGapIsInvalidOperation ==
    (op = "connect" /\ NegativeGap(inp.a, inp.b)) =>
        out.kind = "InvalidOperation"

\* b lies before a on the reference and after it on the query
C10_Witness ==
    /\ op = "connect"
    /\ NegativeGap(inp.a, inp.b)
    /\ RefGap(inp.a, inp.b) < 0 /\ QueryGap(inp.a, inp.b) >= 0
    /\ inp.a.cigar # <<>> /\ inp.b.cigar # <<>>
    /\ ~IsOk(out)

----------------------------------------------------------------------------
(* SpecTriple: a caller holding three hits a, b, c adds them in the two    *)
(* groupings.  a starts at (PairBase, PairBase); b starts 0..MaxGap        *)
(* positions after the end of a on each axis, and c after the end of b,    *)
(* so that each seam either touches or does not.                           *)

MaxTripleOps == 1   \* operations in the Cigar of each of the three hits
MaxGap == 1         \* the largest distance left between two of the hits

TripleCigars == CigarsUpTo(PairOps, MaxTripleOps)

\* the hit of a Cigar placed gr, gq positions after the end of the hit h
PlacedAfter(h, cigar, gr, gq) ==
    Placed(cigar, h.r_ei + 1 + gr, h.q_ei + 1 + gq)

\* (a + b) + c and a + (b + c); the error of the inner addition propagates
HitAddLeftFirst(a, b, c) ==
    LET ab == HitAdd(a, b) IN IF IsOk(ab) THEN HitAdd(ab.val, c) ELSE ab

HitAddRightFirst(a, b, c) ==
    LET bc == HitAdd(b, c) IN IF IsOk(bc) THEN HitAdd(a, bc.val) ELSE bc

InitTriple ==
    /\ \E ca \in TripleCigars, cb \in TripleCigars, cc \in TripleCigars,
          g \in [{"abr", "abq", "bcr", "bcq"} -> 0..MaxGap] :
           LET a == Placed(ca, PairBase, PairBase)
               b == PlacedAfter(a, cb, g["abr"], g["abq"])
               c == PlacedAfter(b, cc, g["bcr"], g["bcq"])
           IN  inp = [a |-> a, b |-> b, c |-> c]
    /\ op = "init"
    /\ out = Ok(<<>>)

HitGroupLeft ==
    /\ op = "init"
    /\ op' = "(a+b)+c"
    /\ out' = HitAddLeftFirst(inp.a, inp.b, inp.c)
    /\ UNCHANGED inp

HitGroupRight ==
    /\ op = "init"
    /\ op' = "a+(b+c)"
    /\ out' = HitAddRightFirst(inp.a, inp.b, inp.c)
    /\ UNCHANGED inp

NextTriple == HitGroupLeft \/ HitGroupRight

SpecTriple == InitTriple /\ [][NextTriple]_vars

----------------------------------------------------------------------------
(* C8: CigarHit addition is associative with matching definedness:         *)
(* (a + b) + c is defined if and only if a + (b + c) is defined; when      *)
(* defined the two results are equal, and when undefined both fail with    *)
(* the same error kind.  The result of each grouping is compared with      *)
(* the result of the other.                                                *)

SameOutcome(x, y) ==
    /\ IsOk(x) <=> IsOk(y)
    /\ IsOk(x) => HitEq(x.val, y.val)
    /\ ~IsOk(x) => x.kind = y.kind

C8_HitAddAssociative ==
    /\ (op = "(a+b)+c") =>
           SameOutcome(out, HitAddRightFirst(inp.a, inp.b, inp.c))
    /\ (op = "a+(b+c)") =>
           SameOutcome(out, HitAddLeftFirst(inp.a, inp.b, inp.c))

\* three touching non-empty hits were added, and the runs merged at a seam
C8_Witness ==
    /\ op = "a+(b+c)"
    /\ IsOk(out)
    /\ inp.a.cigar # <<>> /\ inp.b.cigar # <<>> /\ inp.c.cigar # <<>>
    /\ Len(out.val.cigar) = 2

----------------------------------------------------------------------------
(* SpecConnect: a caller holding three hits a, b, c connects them in the   *)
(* two groupings.  a starts at (PairBase, PairBase); b and c start         *)
(* anywhere in 0..MaxConnStart on each axis, so that they may follow,      *)
(* overlap or precede one another.                                         *)

MaxConnOps == 1     \* operations in the Cigar of each of the three hits
MaxConnStart == 2   \* the largest r_st and q_st of b and of c

ConnCigars == CigarsUpTo(PairOps, MaxConnOps)

\* (a.connect(b)).connect(c) and a.connect(b.connect(c)); the error of the
\* inner connect propagates
ConnectLeftFirst(a, b, c) ==
    LET ab == connect(a, b) IN IF IsOk(ab) THEN connect(ab.val, c) ELSE ab

ConnectRightFirst(a, b, c) ==
    LET bc == connect(b, c) IN IF IsOk(bc) THEN connect(a, bc.val) ELSE bc

InitConnect ==
    /\ \E ca \in ConnCigars, cb \in ConnCigars, cc \in ConnCigars,
          br \in 0..MaxConnStart, bq \in 0..MaxConnStart,
          cr \in 0..MaxConnStart, cq \in 0..MaxConnStart :
           inp = [a |-> Placed(ca, PairBase, PairBase),
                  b |-> Placed(cb, br, bq),
                  c |-> Placed(cc, cr, cq)]
    /\ op = "init"
    /\ out = Ok(<<>>)

ConnectGroupLeft ==
    /\ op = "init"
    /\ op' = "(a.b).c"
    /\ out' = ConnectLeftFirst(inp.a, inp.b, inp.c)
    /\ UNCHANGED inp

ConnectGroupRight ==
    /\ op = "init"
    /\ op' = "a.(b.c)"
    /\ out' = ConnectRightFirst(inp.a, inp.b, inp.c)
    /\ UNCHANGED inp

NextConnect == ConnectGroupLeft \/ ConnectGroupRight

SpecConnect == InitConnect /\ [][NextConnect]_vars

----------------------------------------------------------------------------
(* C11: CigarHit.connect is associative including its failures: either     *)
(* (a.connect(b)).connect(c) and a.connect(b.connect(c)) both succeed and  *)
(* are equal, or both fail with the same error kind; it never happens      *)
(* that one grouping succeeds while the other fails.                       *)

C11_ConnectAssociative ==
    /\ (op = "(a.b).c") =>
           SameOutcome(out, ConnectRightFirst(inp.a, inp.b, inp.c))
    /\ (op = "a.(b.c)") =>
           SameOutcome(out, ConnectLeftFirst(inp.a, inp.b, inp.c))

----------------------------------------------------------------------------
(* SpecOrder: a caller holding two hits a and b adds them in both orders.  *)
(* a starts at (PairBase, PairBase), b anywhere in 0..MaxOrderStart on     *)
(* each axis; the Cigars may hold operations that consume neither axis.    *)

MaxOrderOps == 1     \* operations in the Cigar of each hit
MaxOrderStart == 2   \* the largest r_st and q_st of b

OrderOps == {MATCH, INSERT, DELETE, HARD_CLIPPED, PADDING}

OrderCigars == CigarsUpTo(OrderOps, MaxOrderOps)

InitOrder ==
    /\ \E ca \in OrderCigars, cb \in OrderCigars,
          r_st \in 0..MaxOrderStart, q_st \in 0..MaxOrderStart :
           inp = [a |-> Placed(ca, PairBase, PairBase),
                  b |-> Placed(cb, r_st, q_st)]
    /\ op = "init"
    /\ out = Ok(<<>>)

\* a + b
AddForward ==
    /\ op = "init"
    /\ op' = "a+b"
    /\ out' = HitAdd(inp.a, inp.b)
    /\ UNCHANGED inp

\* b + a
AddBackward ==
    /\ op = "init"
    /\ op' = "b+a"
    /\ out' = HitAdd(inp.b, inp.a)
    /\ UNCHANGED inp

NextOrder == AddForward \/ AddBackward

SpecOrder == InitOrder /\ [][NextOrder]_vars

----------------------------------------------------------------------------
(* C12 as stated: if b + a succeeds while a + b fails, then b starts       *)
(* strictly before a, (b.r_st, b.q_st) < (a.r_st, a.q_st) in               *)
(* lexicographic order; and if both a + b and b + a succeed the two        *)
(* results are equal.  Checked of each order against the other.            *)

StartsBefore(x, y) ==
    x.r_st < y.r_st \/ (x.r_st = y.r_st /\ x.q_st < y.q_st)

SameStart(x, y) == x.r_st = y.r_st /\ x.q_st = y.q_st

\* first + second was computed (res) and second + first is rev
OrderedStrictly(first, second, res, rev) ==
    /\ (IsOk(res) /\ ~IsOk(rev)) => StartsBefore(first, second)
    /\ (IsOk(res) /\ IsOk(rev)) => HitEq(res.val, rev.val)

SameEndpoints(x, y) ==
    /\ x.r_st = y.r_st /\ x.r_ei = y.r_ei
    /\ x.q_st = y.q_st /\ x.q_ei = y.q_ei

CoversNothing(h) == HitRefLength(h) = 0 /\ HitQueryLength(h) = 0

OrderedWeakly(first, second, res, rev) ==
    /\ (IsOk(res) /\ ~IsOk(rev)) =>
           /\ StartsBefore(first, second) \/ SameStart(first, second)
           /\ SameStart(first, second) => CoversNothing(first)
    /\ (IsOk(res) /\ IsOk(rev)) =>
           /\ SameStart(first, second)
           /\ SameEndpoints(res.val, rev.val)
           /\ (first.cigar = <<>> \/ second.cigar = <<>>) =>
                  HitEq(res.val, rev.val)

----------------------------------------------------------------------------
(* SpecStrip: a caller holding a hit h strips it, and strips the result    *)
(* again, up to MaxChain times.  inp.s is the sequence of the strips       *)
(* applied so far, inp.x the hit the last one was applied to, out what it  *)
(* returned.                                                               *)

MaxStripOps == 3     \* operations in the Cigar of the hit
MaxStripStart == 0   \* the largest r_st and q_st of the hit
MaxChain == 3        \* strips applied one after the other

StripNames == {"lstrip_query", "rstrip_query",
               "lstrip_reference", "rstrip_reference"}

StripCigars == CigarsUpTo(ModelOps, MaxStripOps)

\* the strip named s of the hit h
HitStrip(s, h) ==
    CASE s = "lstrip_query" -> HitLstripQuery(h)
      [] s = "rstrip_query" -> HitRstripQuery(h)
      [] s = "lstrip_reference" -> HitLstripReference(h)
      [] s = "rstrip_reference" -> HitRstripReference(h)

InitStrip ==
    /\ \E cigar \in StripCigars,
          r_st \in 0..MaxStripStart, q_st \in 0..MaxStripStart :
           inp = [h |-> Placed(cigar, r_st, q_st), s |-> <<>>, x |-> <<>>]
    /\ op = "init"
    /\ out = Ok(<<>>)

\* a strip of h, or of the hit the previous strip returned
StripHit ==
    /\ IsOk(out)
    /\ Len(inp.s) < MaxChain
    /\ \E s \in StripNames :
           LET cur == IF inp.s = <<>> THEN inp.h ELSE out.val IN
           /\ inp' = [h |-> inp.h, s |-> Append(inp.s, s), x |-> cur]
           /\ op' = s
           /\ out' = HitStrip(s, cur)

NextStrip == StripHit

SpecStrip == InitStrip /\ [][NextStrip]_vars

----------------------------------------------------------------------------
(* C13: each of the four CigarHit strips is idempotent, s(s(h)) == s(h);   *)
(* for h1 = rstrip_query(lstrip_query(h)) (and the other order, and the    *)
(* reference variants) both h1.lstrip == h1 and h1.rstrip == h1 on that    *)
(* axis; no strip ever raises on a valid hit.                              *)

QueryStrips == {"lstrip_query", "rstrip_query"}

ReferenceStrips == {"lstrip_reference", "rstrip_reference"}

\* a and b are the left and the right strip of one axis, in either order,
\* and c is a strip of that axis
BothSidesThen(a, b, c) ==
    \/ {a, b} = QueryStrips /\ c \in QueryStrips
    \/ {a, b} = ReferenceStrips /\ c \in ReferenceStrips

C13_StripsIdempotent ==
    (op \in StripNames) =>
        LET n == Len(inp.s) IN
        /\ IsOk(out)
        /\ (n >= 2 /\ inp.s[n - 1] = inp.s[n]) => HitEq(out.val, inp.x)
        /\ (n >= 3 /\ BothSidesThen(inp.s[n - 2], inp.s[n - 1], inp.s[n]))
               => HitEq(out.val, inp.x)

\* lstrip_query was applied twice, and the first time it removed something
C13_Witness ==
    /\ op = "lstrip_query"
    /\ inp.s = <<"lstrip_query", "lstrip_query">>
    /\ IsOk(out)
    /\ ~HitEq(inp.x, inp.h)
    /\ inp.x.cigar # <<>>

----------------------------------------------------------------------------
(* C14: for every hit h whose ref_to_query mapping is non-empty,           *)
(* h.rstrip_query().lstrip_query() == h.lstrip_query().rstrip_query() and  *)
(* h.rstrip_reference().lstrip_reference() ==                              *)
(* h.lstrip_reference().rstrip_reference() as whole hits; when             *)
(* ref_to_query is empty the two orders still yield equal Cigars.  The     *)
(* result of each order is compared with the result of the other.          *)

\* the other side of the same axis
Opposite(s) ==
    CASE s = "lstrip_query" -> "rstrip_query"
      [] s = "rstrip_query" -> "lstrip_query"
      [] s = "lstrip_reference" -> "rstrip_reference"
      [] s = "rstrip_reference" -> "lstrip_reference"

\* second(first(h)), the error of the inner strip propagating
StripBoth(first, second, h) ==
    LET r == HitStrip(first, h) IN
    IF IsOk(r) THEN HitStrip(second, r.val) ELSE r

RefToQueryEmpty(h) == Keys(HitCoordinateMapping(h).ref_to_query) = {}

C14_StripsCommute ==
    (op \in StripNames /\ Len(inp.s) = 2 /\ inp.s[1] = Opposite(inp.s[2])) =>
        LET other == StripBoth(inp.s[2], inp.s[1], inp.h) IN
        /\ IsOk(out) /\ IsOk(other)
        /\ CigarEq(out.val.cigar, other.val.cigar)
        /\ ~RefToQueryEmpty(inp.h) => HitEq(out.val, other.val)

\* a hit with matches was stripped of its query on the left, then on the
\* right, and both strips removed something
C14_Witness ==
    /\ op = "rstrip_query"
    /\ inp.s = <<"lstrip_query", "rstrip_query">>
    /\ IsOk(out)
    /\ ~RefToQueryEmpty(inp.h)
    /\ ~HitEq(inp.x, inp.h)
    /\ ~HitEq(out.val, inp.x)


----------------------------------------------------------------------------
(* SpecJoin: a hit cut at k + epsilon, both parts stripped towards the cut *)
(* and connected again, one call after the other.                          *)

MaxJoinOps == 4      \* operations in the Cigar of the hit
MaxJoinStart == 1    \* the largest r_st and q_st of the hit

JoinCigars == CigarsUpTo(ModelOps, MaxJoinOps)

\* the integer parts of the cut points: range(h.r_st - 1, h.r_ei)
JoinCuts(h) == (h.r_st - 1)..(h.r_ei - 1)

\* the two results as one: the pair of the hits, or the first error
BothOk(left, right) ==
    IF ~IsOk(left) THEN left
    ELSE IF ~IsOk(right) THEN right
    ELSE Ok(<<left.val, right.val>>)

InitJoin ==
    /\ \E cigar \in JoinCigars,
          r_st \in 0..MaxJoinStart, q_st \in 0..MaxJoinStart :
           inp = [h |-> Placed(cigar, r_st, q_st), k |-> None]
    /\ op = "init"
    /\ out = Ok(<<>>)

\* left, right = h.cut_reference(k + h.epsilon)
JoinCut ==
    /\ op = "init"
    /\ \E k \in JoinCuts(inp.h) :
           /\ inp' = [h |-> inp.h, k |-> Some(k)]
           /\ op' = "cut_reference"
           /\ out' = cut_reference(inp.h, FracAdd(FracOfInt(k), epsilon(inp.h)))

\* left = left.rstrip_query(); right = right.lstrip_query()
JoinStripQuery ==
    /\ op = "cut_reference"
    /\ IsOk(out)
    /\ inp' = inp
    /\ op' = "strip_query"
    /\ out' = BothOk(HitRstripQuery(out.val[1]), HitLstripQuery(out.val[2]))

\* left = left.rstrip_reference(); right = right.lstrip_reference()
JoinStripReference ==
    /\ op = "cut_reference"
    /\ IsOk(out)
    /\ inp' = inp
    /\ op' = "strip_reference"
    /\ out' = BothOk(HitRstripReference(out.val[1]),
                     HitLstripReference(out.val[2]))

\* left.connect(right)
JoinConnect ==
    /\ op \in {"strip_query", "strip_reference"}
    /\ IsOk(out)
    /\ inp' = inp
    /\ op' = "connect"
    /\ out' = connect(out.val[1], out.val[2])

NextJoin == JoinCut \/ JoinStripQuery \/ JoinStripReference \/ JoinConnect

SpecJoin == InitJoin /\ [][NextJoin]_vars

----------------------------------------------------------------------------
(* C15: for every hit h and cut point k + epsilon, k an integer in          *)
(* [h.r_st - 1, h.r_ei - 1], with (left, right) = h.cut_reference(k + eps): *)
(* left.rstrip_query().connect(right.lstrip_query()) is defined and its     *)
(* ref_to_query equals that of h; the same with the reference strips.       *)

C15_StripComposesWithConnect ==
    /\ (op \in {"cut_reference", "strip_query", "strip_reference"}) =>
           IsOk(out)
    /\ (op = "connect") =>
           /\ IsOk(out)
           /\ IntDictEq(HitCoordinateMapping(out.val).ref_to_query,
                        HitCoordinateMapping(inp.h).ref_to_query)

\* 1M1D1I1M cut after its first reference position: the right part 1D1I1M
\* loses its insertion to the strip, the connection fills the query gap
\* before the deletion, and 1M1I1D1M has the same mapping
C15_Witness ==
    /\ op = "connect"
    /\ IsOk(out)
    /\ DecodedOps(inp.h.cigar) = <<MATCH, DELETE, INSERT, MATCH>>
    /\ inp.k = Some(inp.h.r_st)
    /\ DecodedOps(out.val.cigar) = <<MATCH, INSERT, DELETE, MATCH>>
    /\ Keys(HitCoordinateMapping(out.val).ref_to_query) # {}

----------------------------------------------------------------------------
(* SpecGaps: the deletions and the insertions of a hit.                    *)

MaxGapsOps == 3      \* operations in the Cigar of the hit
MaxGapsStart == 1    \* the largest r_st and q_st of the hit

GapsOps == {MATCH, INSERT, DELETE, SKIPPED, HARD_CLIPPED}

GapsCigars == CigarsUpTo(GapsOps, MaxGapsOps)

InitGaps ==
    /\ \E cigar \in GapsCigars,
          r_st \in 0..MaxGapsStart, q_st \in 0..MaxGapsStart :
           inp = [h |-> Placed(cigar, r_st, q_st)]
    /\ op = "init"
    /\ out = Ok(<<>>)

\* list(h.deletions())
Deletions ==
    /\ op = "init"
    /\ inp' = inp
    /\ op' = "deletions"
    /\ out' = deletions(inp.h)

\* list(h.insertions())
Insertions ==
    /\ op = "init"
    /\ inp' = inp
    /\ op' = "insertions"
    /\ out' = insertions(inp.h)

NextGaps == Deletions \/ Insertions

SpecGaps == InitGaps /\ [][NextGaps]_vars

----------------------------------------------------------------------------
(* C16: every hit emitted by h.deletions() has query_length == 0,           *)
(* ref_length > 0 and no M or I in its Cigar; every hit emitted by          *)
(* h.insertions() has ref_length == 0, query_length > 0 and no M or D in    *)
(* its Cigar; the ref_to_query mapping of every emitted hit is empty.       *)

HasOp(c, S) == \E i \in 1..Len(c) : c[i].op \in S

C16_GapLengths ==
    /\ (op = "deletions") =>
           /\ IsOk(out)
           /\ \A i \in 1..Len(out.val) :
                  LET d == out.val[i] IN
                  /\ HitQueryLength(d) = 0
                  /\ HitRefLength(d) > 0
                  /\ ~HasOp(d.cigar, {MATCH, INSERT})
                  /\ RefToQueryEmpty(d)
    /\ (op = "insertions") =>
           /\ IsOk(out)
           /\ \A i \in 1..Len(out.val) :
                  LET d == out.val[i] IN
                  /\ HitRefLength(d) = 0
                  /\ HitQueryLength(d) > 0
                  /\ ~HasOp(d.cigar, {MATCH, DELETE})
                  /\ RefToQueryEmpty(d)

----------------------------------------------------------------------------
(* C17: the number of hits emitted by h.deletions() equals the number of   *)
(* D runs plus the number of N runs of h's normalized Cigar.               *)

\* the runs of the Cigar c whose operation is in S
RunsOf(c, S) == Cardinality({i \in 1..Len(c) : c[i].op \in S})

\* the maximal blocks of adjacent runs of c whose operations are all in S
BlocksOf(c, S) ==
    Cardinality({i \in 1..Len(c) :
                    /\ c[i].op \in S
                    /\ (i = 1 \/ c[i - 1].op \notin S)})

----------------------------------------------------------------------------
(* SpecMap: the coordinate mappings of a Cigar and of a hit, and their     *)
(* translations.                                                           *)

MaxMapOps == 3       \* operations in the Cigar
MaxMapStart == 1     \* the largest r_st and q_st of the hit
MaxDelta == 1        \* the largest shift of a translation, either way

MapOps == {MATCH, INSERT, DELETE, SOFT_CLIPPED, SEQ_MATCH, MISMATCH}

MapCigars == CigarsUpTo(MapOps, MaxMapOps)

Deltas == (0 - MaxDelta)..MaxDelta

InitMap ==
    /\ \E cigar \in MapCigars,
          r_st \in 0..MaxMapStart, q_st \in 0..MaxMapStart :
           inp = [h |-> Placed(cigar, r_st, q_st), d |-> <<>>]
    /\ op = "init"
    /\ out = Ok(<<>>)

\* h.cigar.coordinate_mapping
MapOfCigar ==
    /\ op = "init"
    /\ inp' = inp
    /\ op' = "Cigar.coordinate_mapping"
    /\ out' = Ok(coordinate_mapping(inp.h.cigar))

\* h.coordinate_mapping
MapOfHit ==
    /\ op = "init"
    /\ inp' = inp
    /\ op' = "CigarHit.coordinate_mapping"
    /\ out' = Ok(HitCoordinateMapping(inp.h))

\* h.coordinate_mapping.translate(reference_delta, query_delta)
MapTranslated ==
    /\ op = "init"
    /\ \E reference_delta \in Deltas, query_delta \in Deltas :
           /\ inp' = [h |-> inp.h, d |-> <<reference_delta, query_delta>>]
           /\ op' = "translate"
           /\ out' = Ok(CoordTranslate(HitCoordinateMapping(inp.h),
                                       reference_delta, query_delta))

NextMap == MapOfCigar \/ MapOfHit \/ MapTranslated

SpecMap == InitMap /\ [][NextMap]_vars

----------------------------------------------------------------------------
(* C18: in every coordinate mapping of a Cigar, and of a hit after          *)
(* translation, ref_to_query and query_to_ref are inverse bijections:       *)
(* query_to_ref == {v: k for (k, v) in ref_to_query} and the reverse.       *)

\* equality of a dict comprehension with the items of an IntDict
SameItems(f, d) ==
    /\ DOMAIN f = Keys(d)
    /\ \A k \in DOMAIN f : f[k] = d.dict[k]

Injective(d) ==
    \A j, k \in Keys(d) : d.dict[j] = d.dict[k] => j = k

C18_CoordMapBijection ==
    (op # "init") =>
        LET m == out.val IN
        /\ SameItems(InverseDict(m.ref_to_query), m.query_to_ref)
        /\ SameItems(InverseDict(m.query_to_ref), m.ref_to_query)
        /\ Injective(m.ref_to_query)
        /\ Injective(m.query_to_ref)

\* 1M1D1X moved by (1, -1): reference 1 maps to query -1 and reference 3
\* to query 0, and back
C18_Witness ==
    /\ op = "translate"
    /\ DecodedOps(inp.h.cigar) = <<MATCH, DELETE, MISMATCH>>
    /\ inp.h.r_st = 0 /\ inp.h.q_st = 0
    /\ inp.d = <<1, 0 - 1>>
    /\ Keys(out.val.ref_to_query) = {1, 3}
    /\ out.val.ref_to_query.dict[1] = 0 - 1
    /\ out.val.query_to_ref.dict[0] = 3


----------------------------------------------------------------------------
(* connect_cigar_hits (cigar_hit.py)                                       *)

\* the first loop with overlaps_in_reference in the place of
\* overlaps_in_query
RECURSIVE AccumulateByReference(_, _)
AccumulateByReference(cigar_hits, accumulator) ==
    IF cigar_hits = <<>> THEN accumulator
    ELSE LET hit == Head(cigar_hits) IN
         AccumulateByReference(
             Tail(cigar_hits),
             IF \E i \in 1..Len(accumulator) :
                    overlaps_in_reference(accumulator[i], hit)
             THEN accumulator ELSE Append(accumulator, hit))

\* the first loop: a hit that overlaps in query a hit of the accumulator
\* is passed over, any other hit is appended
RECURSIVE Accumulate(_, _)
Accumulate(cigar_hits, accumulator) ==
    IF cigar_hits = <<>> THEN accumulator
    ELSE LET hit == Head(cigar_hits) IN
         Accumulate(
             Tail(cigar_hits),
             IF \E i \in 1..Len(accumulator) :
                    overlaps_in_query(accumulator[i], hit)
             THEN accumulator ELSE Append(accumulator, hit))

\* sorted(accumulator, key=lambda p: p.r_st): the sort is stable, so a hit
\* goes after the hits of the same r_st that came before it
RECURSIVE SortedByRst(_)
SortedByRst(hits) ==
    IF hits = <<>> THEN <<>>
    ELSE LET n == Len(hits)
             front == SortedByRst(SubSeq(hits, 1, n - 1))
             k == Cardinality({i \in 1..(n - 1) :
                                  front[i].r_st <= hits[n].r_st})
         IN  SubSeq(front, 1, k) \o <<hits[n]>> \o SubSeq(front, k + 1, n - 1)

\* find_group without the condition on the reference axis
find_group_query_only(sorted_groups, phit) ==
    LET fits(group) == phit.q_st > group[Len(group)].q_ei
        js == {j \in 1..Len(sorted_groups) : fits(sorted_groups[j])}
    IN  IF js = {} THEN Append(sorted_groups, <<phit>>)
        ELSE [sorted_groups EXCEPT ![SetMin(js)] = Append(@, phit)]

\* find_group: phit joins the first group it comes after in query and
\* overlaps no member of in reference, or starts a new group
find_group(sorted_groups, phit) ==
    LET fits(group) ==
            /\ phit.q_st > group[Len(group)].q_ei
            /\ \A i \in 1..Len(group) :
                   ~overlaps_in_reference(phit, group[i])
        js == {j \in 1..Len(sorted_groups) : fits(sorted_groups[j])}
    IN  IF js = {} THEN Append(sorted_groups, <<phit>>)
        ELSE [sorted_groups EXCEPT ![SetMin(js)] = Append(@, phit)]

RECURSIVE Segregate(_, _)
Segregate(sorted_parts, sorted_groups) ==
    IF sorted_parts = <<>> THEN sorted_groups
    ELSE Segregate(Tail(sorted_parts),
                   find_group(sorted_groups, Head(sorted_parts)))

\* reduce(CigarHit.connect, group) of a non-empty group, from the result so
\* far; an error of connect ends it
RECURSIVE ReduceConnect(_, _)
ReduceConnect(sofar, rest) ==
    IF rest = <<>> \/ ~IsOk(sofar) THEN sofar
    ELSE ReduceConnect(connect(sofar.val, Head(rest)), Tail(rest))

\* the list comprehension over the groups: the first error is raised
RECURSIVE ConnectGroups(_, _)
ConnectGroups(sorted_groups, done) ==
    IF sorted_groups = <<>> THEN Ok(done)
    ELSE LET group == Head(sorted_groups)
             hit == ReduceConnect(Ok(Head(group)), Tail(group))
         IN  IF ~IsOk(hit) THEN hit
             ELSE ConnectGroups(Tail(sorted_groups), Append(done, hit.val))

\* connect_cigar_hits.  The exception of the empty list is looked up in
\* aligntools.exceptions, which does not define it: the lookup raises
\* AttributeError
connect_cigar_hits(cigar_hits) ==
    IF Len(cigar_hits) = 0 THEN Err("AttributeError")
    ELSE ConnectGroups(
             Segregate(SortedByRst(Accumulate(cigar_hits, <<>>)), <<>>),
             <<>>)

----------------------------------------------------------------------------
(* SpecList: connect_cigar_hits of a list of hits.                         *)

MaxHits == 3         \* hits in the list
MaxListOps == 1      \* operations in the Cigar of a hit
MaxListStart == 1    \* the largest r_st and q_st of a hit

ListHits ==
    {Placed(cigar, r_st, q_st) :
        cigar \in CigarsUpTo({MATCH}, MaxListOps),
        r_st \in 0..MaxListStart, q_st \in 0..MaxListStart}

InitList ==
    /\ inp \in [hits : SeqsUpTo(ListHits, MaxHits), x : {<<>>}]
    /\ op = "init"
    /\ out = Ok(<<>>)

\* connect_cigar_hits(hits); x is the accumulator after the first loop
ConnectHits ==
    /\ op = "init"
    /\ inp' = [hits |-> inp.hits, x |-> Accumulate(inp.hits, <<>>)]
    /\ op' = "connect_cigar_hits"
    /\ out' = connect_cigar_hits(inp.hits)

NextList == ConnectHits

SpecList == InitList /\ [][NextList]_vars

----------------------------------------------------------------------------
(* C19: the hits are processed in the given order and every hit that       *)
(* overlaps in query (inclusive intervals) an earlier accepted hit is      *)
(* skipped: a skipped hit contributes nothing to the output, and the       *)
(* accepted hits are pairwise non-overlapping in query.                    *)

\* the indices of the hits accepted among the first n: hit n is accepted
\* when it overlaps in query no accepted hit before it
RECURSIVE AcceptedUpTo(_, _)
AcceptedUpTo(hits, n) ==
    IF n = 0 THEN {}
    ELSE LET before == AcceptedUpTo(hits, n - 1) IN
         IF \E j \in before : overlaps_in_query(hits[j], hits[n])
         THEN before ELSE before \cup {n}

\* the hits of the indices S, in the order of the list
RECURSIVE Picked(_, _, _)
Picked(hits, S, i) ==
    IF i > Len(hits) THEN <<>>
    ELSE (IF i \in S THEN <<hits[i]>> ELSE <<>>) \o Picked(hits, S, i + 1)

----------------------------------------------------------------------------
(* C20: no input hit is discarded: a hit that overlaps an earlier hit is   *)
(* returned as a separate hit, so the aligned positions of every input hit *)
(* appear in the output.                                                   *)

\* the aligned positions of a hit: the items of its ref_to_query
AlignedPositions(h) ==
    LET d == HitCoordinateMapping(h).ref_to_query IN
    {<<k, d.dict[k]>> : k \in Keys(d)}

C20_NoHitDiscarded ==
    (op = "connect_cigar_hits" /\ inp.hits # <<>>) =>
        /\ IsOk(out)
        /\ \A i \in 1..Len(inp.hits) :
               AlignedPositions(inp.hits[i]) \subseteq
                   UNION {AlignedPositions(out.val[j]) :
                              j \in 1..Len(out.val)}


----------------------------------------------------------------------------
(* SpecCoerce: Cigar(...) and Cigar.coerce(...) of lists with elements     *)
(* that are not (count, operation) pairs of the right types.               *)

MaxBadItems == 2     \* elements of the list

\* ints that are not the value of a CigarActions member
InvalidOps == {0 - 1, 9}

CoerceItems ==
    {Item(n, MATCH, r) : n \in {0 - 1, 1}, r \in BOOLEAN}
    \cup {Item(n, a, TRUE) : n \in {0 - 1, 0, 1}, a \in InvalidOps}
    \cup {NotATuple, BadLength, BadOperation(1),
          BadCount(MATCH, FALSE), BadCount(9, TRUE)}

InitCoerce ==
    /\ inp = [x |-> <<>>]
    /\ op = "init"
    /\ out = Ok(<<>>)

\* Cigar(lst)
ConstructBad ==
    /\ op = "init"
    /\ \E lst \in SeqsUpTo(CoerceItems, MaxBadItems) :
           /\ inp' = [x |-> lst]
           /\ op' = "Cigar"
           /\ out' = Cigar(lst)

\* Cigar.coerce(lst)
CoerceBad ==
    /\ op = "init"
    /\ \E lst \in SeqsUpTo(CoerceItems, MaxBadItems) :
           /\ inp' = [x |-> lst]
           /\ op' = "coerce_list"
           /\ out' = CoerceList(lst)

NextCoerce == ConstructBad \/ CoerceBad

SpecCoerce == InitCoerce /\ [][NextCoerce]_vars

----------------------------------------------------------------------------
(* C21: constructing a Cigar from a list in which an operation is an int   *)
(* outside 0..8 fails with InvalidOperation, as do a negative or           *)
(* non-integer count and a tuple of wrong arity.                           *)

\* the element is one of those the claim names
Malformed(item) ==
    \/ IsBad(item, {"bad length", "count"})
    \/ ~IsBad(item, {"not a tuple", "bad length", "operation"})
       /\ item.raw /\ item.op \notin {0, 1, 2, 3, 4, 5, 6, 7, 8}
    \/ ~IsBad(item, {"not a tuple", "bad length", "operation", "count"})
       /\ item.num < 0

C21_BadItemIsInvalidOperation ==
    (op \in {"Cigar", "coerce_list"}
     /\ \E i \in 1..Len(inp.x) : Malformed(inp.x[i])) =>
        out.kind = "InvalidOperation"


----------------------------------------------------------------------------
(* SpecGroup: connect_cigar_hits of hits of at most one match, where the   *)
(* order of the hits on the two axes decides the groups.                   *)

MaxGroupHits == 3    \* hits in the list
MaxGroupStart == 1   \* the largest r_st and q_st of a hit

GroupHits ==
    {Placed(cigar, r_st, q_st) :
        cigar \in CigarsUpTo({MATCH}, 1),
        r_st \in 0..MaxGroupStart, q_st \in 0..MaxGroupStart}

InitGroup ==
    /\ inp \in [hits : SeqsUpTo(GroupHits, MaxGroupHits), x : {<<>>}]
    /\ op = "init"
    /\ out = Ok(<<>>)

\* connect_cigar_hits(hits); x is the accumulator after the first loop
ConnectGroupedHits ==
    /\ op = "init"
    /\ inp' = [hits |-> inp.hits, x |-> Accumulate(inp.hits, <<>>)]
    /\ op' = "connect_cigar_hits"
    /\ out' = connect_cigar_hits(inp.hits)

NextGroup == ConnectGroupedHits

SpecGroup == InitGroup /\ [][NextGroup]_vars

----------------------------------------------------------------------------
(* C22: the accepted hits are sorted by r_st ascending; each hit h in turn *)
(* joins the first group g with h.q_st > g.last.q_ei that has no member    *)
(* overlapping h in reference, and otherwise starts a new group; the       *)
(* output is one hit per group, the left fold of connect over its members, *)
(* in the order the groups were created.  Two hits reversed on the query   *)
(* axis relative to the reference axis end up in two groups.               *)

\* the groups of the first n of the sorted parts, in creation order
RECURSIVE GroupsUpTo(_, _)
GroupsUpTo(parts, n) ==
    IF n = 0 THEN <<>>
    ELSE LET gs == GroupsUpTo(parts, n - 1)
             h == parts[n]
             open == {j \in 1..Len(gs) :
                         /\ h.q_st > gs[j][Len(gs[j])].q_ei
                         /\ \A m \in 1..Len(gs[j]) :
                                ~overlaps_in_reference(h, gs[j][m])}
         IN  IF open = {} THEN Append(gs, <<h>>)
             ELSE [j \in 1..Len(gs) |->
                      IF j = SetMin(open) THEN Append(gs[j], h) ELSE gs[j]]

\* the left fold of connect over the first n members of a group
RECURSIVE FoldConnect(_, _)
FoldConnect(group, n) ==
    IF n = 1 THEN Ok(group[1])
    ELSE LET before == FoldConnect(group, n - 1) IN
         IF IsOk(before) THEN connect(before.val, group[n]) ELSE before

\* p is the list q in another order
IsPermutation(p, q) ==
    /\ Len(p) = Len(q)
    /\ \A i \in 1..Len(p) :
           Cardinality({j \in 1..Len(p) : p[j] = p[i]})
               = Cardinality({j \in 1..Len(q) : q[j] = p[i]})

C22_GroupsFoldedInOrder ==
    (op = "connect_cigar_hits" /\ inp.hits # <<>>) =>
        LET parts == SortedByRst(inp.x)
            gs == GroupsUpTo(parts, Len(parts))
            folds == [j \in 1..Len(gs) |-> FoldConnect(gs[j], Len(gs[j]))]
            failed == {j \in 1..Len(gs) : ~IsOk(folds[j])}
        IN  /\ IsPermutation(parts, inp.x)
            /\ \A i \in 1..(Len(parts) - 1) : parts[i].r_st <= parts[i + 1].r_st
            /\ IF failed = {}
               THEN out = Ok([j \in 1..Len(gs) |-> folds[j].val])
               ELSE out = folds[SetMin(failed)]
            /\ (Len(parts) = 2 /\ parts[1].r_st < parts[2].r_st
                /\ parts[2].q_st < parts[1].q_st) =>
                   (IsOk(out) /\ out.val = parts)

\* two hits of one match each, the first after the second in reference
\* and before it in query: sorted by r_st they change places, the second
\* cannot join the group of the first, and both come back
C22_Witness ==
    /\ op = "connect_cigar_hits"
    /\ Len(inp.hits) = 2
    /\ inp.x = inp.hits
    /\ inp.hits[1].cigar # <<>> /\ inp.hits[2].cigar # <<>>
    /\ inp.hits[1].r_st > inp.hits[2].r_st
    /\ inp.hits[1].q_st < inp.hits[2].q_st
    /\ out = Ok(<<inp.hits[2], inp.hits[1]>>)


----------------------------------------------------------------------------
(* SpecIntDict: an IntDict built by extend calls, and its queries.         *)

MaxKey == 1          \* the largest key of an extend call
MaxValue == 1        \* the largest value of an extend call
MaxExtends == 3      \* extend calls on one IntDict

\* an Optional int of 0..n
OptionalUpTo(n) == {None} \cup {Some(i) : i \in 0..n}

InitIntDict ==
    /\ inp = [d |-> IntDict, n |-> 0, x |-> None]
    /\ op = "init"
    /\ out = Ok(None)

\* d.extend(key, value)
ExtendDict ==
    /\ op \in {"init", "extend"}
    /\ inp.n < MaxExtends
    /\ \E key \in OptionalUpTo(MaxKey), value \in OptionalUpTo(MaxValue) :
           /\ inp' = [d |-> IntDictExtend(inp.d, key, value),
                      n |-> inp.n + 1, x |-> None]
           /\ op' = "extend"
           /\ out' = Ok(None)

\* d.left_max(index)
LeftMax ==
    /\ op \in {"init", "extend"}
    /\ \E index \in (0 - 1)..(MaxKey + 1) :
           /\ inp' = [inp EXCEPT !.x = Some(index)]
           /\ op' = "left_max"
           /\ out' = Ok(left_max(inp.d, index))

\* d.right_min(index)
RightMin ==
    /\ op \in {"init", "extend"}
    /\ \E index \in (0 - 1)..(MaxKey + 1) :
           /\ inp' = [inp EXCEPT !.x = Some(index)]
           /\ op' = "right_min"
           /\ out' = Ok(right_min(inp.d, index))

NextIntDict == ExtendDict \/ LeftMax \/ RightMin

SpecIntDict == InitIntDict /\ [][NextIntDict]_vars

----------------------------------------------------------------------------
(* C23: left_max(i) returns f(k) for the greatest key k of f with k <= i,  *)
(* right_min(i) returns f(k) for the least key k with k >= i; each is None *)
(* exactly when there is no such key.  The search is over the keys of the  *)
(* mapping, not over the domain superset.                                  *)

KeysUpTo(d, i) == {k \in Keys(d) : k <= i}

KeysFrom(d, i) == {k \in Keys(d) : k >= i}

C23_NearestKeyValue ==
    /\ (op = "left_max") =>
           LET ks == KeysUpTo(inp.d, inp.x[1]) IN
           out.val = IF ks = {} THEN None ELSE Some(inp.d.dict[SetMax(ks)])
    /\ (op = "right_min") =>
           LET ks == KeysFrom(inp.d, inp.x[1]) IN
           out.val = IF ks = {} THEN None ELSE Some(inp.d.dict[SetMin(ks)])

\* C23, amended: left_max(i) returns the greatest of the values f(k) over
\* the keys k <= i, right_min(i) the least of the values f(k) over the keys
\* k >= i; each is None exactly when there is no such key, whatever the
\* domain superset holds
C23_ExtremeValue ==
    /\ (op = "left_max") =>
           LET ks == KeysUpTo(inp.d, inp.x[1]) IN
           IF ks = {} THEN out.val = None
           ELSE /\ out.val # None
                /\ \E k \in ks : inp.d.dict[k] = out.val[1]
                /\ \A k \in ks : inp.d.dict[k] <= out.val[1]
    /\ (op = "right_min") =>
           LET ks == KeysFrom(inp.d, inp.x[1]) IN
           IF ks = {} THEN out.val = None
           ELSE /\ out.val # None
                /\ \E k \in ks : inp.d.dict[k] = out.val[1]
                /\ \A k \in ks : out.val[1] <= inp.d.dict[k]

\* f = {0: 1, 1: 0}: left_max(1) is 1, the value of the key 0
C23_Witness ==
    /\ op = "left_max"
    /\ Keys(inp.d) = {0, 1}
    /\ inp.d.dict[0] = 1 /\ inp.d.dict[1] = 0
    /\ inp.x = Some(1)
    /\ out.val = Some(1)


----------------------------------------------------------------------------
(* C24: slice_operations(a, b) returns the Cigar of the decoded operations *)
(* with indices in [a, b), where the bounds saturate: a negative bound is  *)
(* treated as 0 and a bound greater than op_length as op_length; an empty  *)
(* range returns the empty Cigar.                                          *)

\* the elements of ops whose 0-based index is in S, in order
RECURSIVE OpsAt(_, _, _)
OpsAt(ops, S, i) ==
    IF i > Len(ops) THEN <<>>
    ELSE (IF (i - 1) \in S THEN <<ops[i]>> ELSE <<>>) \o OpsAt(ops, S, i + 1)

C24_SliceSaturates ==
    (op = "slice_operations") =>
        LET ops == DecodedOps(inp.c)
            a == inp.x[1]
            b == inp.x[2]
            S == {i \in 0..(Len(ops) - 1) :
                     (IF a < 0 THEN 0 ELSE a) <= i /\ i < (IF b < 0 THEN 0 ELSE b)}
        IN  /\ IsOk(out)
            /\ DecodedOps(out.val) = OpsAt(ops, S, 1)

\* C24, amended: a negative bound counts from the end (it stands for
\* op_length plus the bound); the indices kept are those of [a, b) that
\* exist, and an empty range returns the empty Cigar
C24_SliceCountsFromEnd ==
    (op = "slice_operations") =>
        LET ops == DecodedOps(inp.c)
            n == Len(ops)
            a == IF inp.x[1] < 0 THEN inp.x[1] + n ELSE inp.x[1]
            b == IF inp.x[2] < 0 THEN inp.x[2] + n ELSE inp.x[2]
            S == {i \in 0..(n - 1) : a <= i /\ i < b}
        IN  /\ IsOk(out)
            /\ Canonical(out.val)
            /\ DecodedOps(out.val) = OpsAt(ops, S, 1)
            /\ (S = {}) => out.val = <<>>

\* a Cigar of three operations sliced from -2 to 5: the last two
\* operations, not all three
C24_Witness ==
    /\ op = "slice_operations"
    /\ op_length(inp.c) = 3
    /\ inp.x = <<0 - 2, 3>>
    /\ IsOk(out)
    /\ op_length(out.val) = 2
    /\ DecodedOps(out.val) = SubSeq(DecodedOps(inp.c), 2, 3)

----------------------------------------------------------------------------
(* C25: lstrip_query keeps exactly the operations whose index is >= op*    *)
(* together with every operation that consumes a reference position, op*   *)
(* being the operation of the smallest key of ref_to_query (rstrip_query:  *)
(* index <= op* of the largest key); every other operation is removed, and *)
(* with an empty ref_to_query only reference-consuming operations remain.  *)
(* The reference strips exchange query and reference.                      *)

StripCalls == {"lstrip_query", "rstrip_query",
               "lstrip_reference", "rstrip_reference"}

\* the 0-based indices of the operations that consume both sequences: the
\* operations of the keys of ref_to_query and of query_to_ref
AlignedIndices(ops) == {i \in 0..(Len(ops) - 1) : ConsumesBoth(ops[i + 1])}

\* the indices on the kept side of op*: none when nothing is aligned
WithinBound(ops, call) ==
    LET al == AlignedIndices(ops)
    IN  IF al = {} THEN {}
        ELSE IF call \in {"lstrip_query", "lstrip_reference"}
             THEN {i \in 0..(Len(ops) - 1) : i >= SetMin(al)}
             ELSE {i \in 0..(Len(ops) - 1) : i <= SetMax(al)}

ConsumesReference(a) == ConsumesBoth(a) \/ ConsumesRefOnly(a)

ConsumesQuery(a) == ConsumesBoth(a) \/ ConsumesQueryOnly(a)

C25_StripKeepsOtherAxis ==
    (op \in StripCalls) =>
        LET ops == DecodedOps(inp.c)
            other(a) == IF op \in {"lstrip_query", "rstrip_query"}
                        THEN ConsumesReference(a) ELSE ConsumesQuery(a)
            S == WithinBound(ops, op)
                 \cup {i \in 0..(Len(ops) - 1) : other(ops[i + 1])}
        IN  /\ IsOk(out)
            /\ DecodedOps(out.val) = OpsAt(ops, S, 1)

\* C25, amended: besides the operations on the kept side of op*, a query
\* strip keeps every operation that consumes no query position (a
\* reference strip: no reference position), so the operations that consume
\* neither sequence are kept wherever they are; the operations removed
\* are exactly those beyond op* that consume the stripped sequence
C25_StripKeepsNotStripped ==
    (op \in StripCalls) =>
        LET ops == DecodedOps(inp.c)
            stripped(a) == IF op \in {"lstrip_query", "rstrip_query"}
                           THEN ConsumesQuery(a) ELSE ConsumesReference(a)
            S == WithinBound(ops, op)
                 \cup {i \in 0..(Len(ops) - 1) : ~stripped(ops[i + 1])}
        IN  /\ IsOk(out)
            /\ Canonical(out.val)
            /\ DecodedOps(out.val) = OpsAt(ops, S, 1)

\* 1H1I1M stripped of its leading query operations: 1H1M, the hard clip
\* before the first match is kept
C25_Witness ==
    /\ op = "lstrip_query"
    /\ [k \in 1..Len(inp.c) |-> inp.c[k].op] = <<HARD_CLIPPED, INSERT, MATCH>>
    /\ IsOk(out)
    /\ [k \in 1..Len(out.val) |-> out.val[k].op] = <<HARD_CLIPPED, MATCH>>

----------------------------------------------------------------------------
(* SpecIntEq: two IntDicts a and b built by extend calls, and compared     *)
(* with ==.  inp.n counts the extend calls made on the two together.       *)

MaxEqExtends == 2    \* extend calls on the two IntDicts together

InitIntEq ==
    /\ inp = [a |-> IntDict, b |-> IntDict, n |-> 0]
    /\ op = "init"
    /\ out = Ok(None)

\* a.extend(key, value)
ExtendLeft ==
    /\ inp.n < MaxEqExtends
    /\ \E key \in OptionalUpTo(MaxKey), value \in OptionalUpTo(MaxValue) :
           /\ inp' = [inp EXCEPT !.a = IntDictExtend(inp.a, key, value),
                                 !.n = inp.n + 1]
           /\ op' = "extend"
           /\ out' = Ok(None)

\* b.extend(key, value)
ExtendRight ==
    /\ inp.n < MaxEqExtends
    /\ \E key \in OptionalUpTo(MaxKey), value \in OptionalUpTo(MaxValue) :
           /\ inp' = [inp EXCEPT !.b = IntDictExtend(inp.b, key, value),
                                 !.n = inp.n + 1]
           /\ op' = "extend"
           /\ out' = Ok(None)

\* a == b
CompareDicts ==
    /\ op # "eq"
    /\ inp' = inp
    /\ op' = "eq"
    /\ out' = Ok(IntDictEq(inp.a, inp.b))

NextIntEq == ExtendLeft \/ ExtendRight \/ CompareDicts

SpecIntEq == InitIntEq /\ [][NextIntEq]_vars

----------------------------------------------------------------------------
(* C26: equality of two IntDicts is structural over all three components:  *)
(* two IntDicts compare equal only if their mappings, their domain         *)
(* supersets and their codomain supersets are all equal.                   *)

C26_EqualityOverThreeComponents ==
    (op = "eq" /\ out.val) =>
        /\ inp.a.dict = inp.b.dict
        /\ inp.a.domain = inp.b.domain
        /\ inp.a.codomain = inp.b.codomain

\* C26, amended: two IntDicts compare equal exactly when their mappings
\* are equal (the same keys with the same values), whatever their domain
\* and codomain supersets hold
C26_EqualityOverMapping ==
    (op = "eq") => (out.val <=> inp.a.dict = inp.b.dict)

\* a is extended with the key 0 alone and b with the value 1 alone: the
\* supersets differ, the mappings are both empty, and a == b
C26_Witness ==
    /\ op = "eq"
    /\ inp.a.domain = {0} /\ inp.b.domain = {}
    /\ inp.a.codomain = {} /\ inp.b.codomain = {1}
    /\ out.val

----------------------------------------------------------------------------
(* C27: for every valid cut of the hit h at the non-integer c, the two     *)
(* parts touch at the cut point and partition h: left.r_st = h.r_st,       *)
(* left.r_ei = floor(c), right.r_st = ceil(c), right.r_ei = h.r_ei,        *)
(* left.q_st = h.q_st, right.q_ei = h.q_ei, left.q_ei + 1 = right.q_st,    *)
(* and the op_length of the two Cigars add up to that of h.                *)

C27_WitnessEmptyLeft ==
    /\ op = "cut_reference"
    /\ ValidCut(inp.h[1], inp.x)
    /\ IsOk(out)
    /\ Floor(inp.x) = inp.h[1].r_st - 1
    /\ out.val[1].r_ei = inp.h[1].r_st - 1

----------------------------------------------------------------------------
(* C28: for every non-empty list of valid CigarHits (hits with an empty    *)
(* reference or query interval included), connect_cigar_hits returns a     *)
(* list of hits without raising: every connect of the left fold over a     *)
(* group is defined.                                                       *)

C28_ConnectNeverRaises ==
    (op = "connect_cigar_hits" /\ Len(inp.hits) > 0) => IsOk(out)

----------------------------------------------------------------------------
(* C29: connect only fills the gap and leaves the alignments of both       *)
(* operands as they are: whenever a.connect(b) succeeds, the ref_to_query  *)
(* mapping of the result (in absolute coordinates) is exactly the union of *)
(* the ref_to_query mappings of a and of b; the filler adds no             *)
(* reference-to-query pair.                                                *)

\* the key/value pairs of an IntDict
Pairs(d) == {<<k, d.dict[k]>> : k \in Keys(d)}

RefToQueryPairs(h) == Pairs(HitCoordinateMapping(h).ref_to_query)

C29_ConnectKeepsAlignments ==
    (op = "connect" /\ IsOk(out)) =>
        RefToQueryPairs(out.val)
            = RefToQueryPairs(inp.a) \cup RefToQueryPairs(inp.b)

\* two hits with aligned positions connected over a gap of one reference
\* and one query position
C29_Witness ==
    /\ op = "connect"
    /\ IsOk(out)
    /\ RefGap(inp.a, inp.b) = 1 /\ QueryGap(inp.a, inp.b) = 1
    /\ RefToQueryPairs(inp.a) # {} /\ RefToQueryPairs(inp.b) # {}
    /\ Cardinality(RefToQueryPairs(out.val))
           = Cardinality(RefToQueryPairs(inp.a))
             + Cardinality(RefToQueryPairs(inp.b))

----------------------------------------------------------------------------
(* SpecMsa: a caller holding two rows of an alignment turns them into a    *)
(* Cigar and renders the Cigar back with the rows' bases, or renders some  *)
(* Cigar with the two rows as the sequences.                               *)

MaxColumns == 3      \* characters in a row
MaxMsaOps == 2       \* operations in a Cigar rendered directly

MsaRows == SeqsUpTo(MsaAlphabet, MaxColumns)

MsaCigars == CigarsUpTo(ModelOps, MaxMsaOps)

\* row.replace("-", "")
Degap(row) == SelectSeq(row, LAMBDA ch : ch # "-")

InitMsa ==
    /\ inp \in [ref : MsaRows, query : MsaRows, c : {<<>>}]
    /\ op = "init"
    /\ out = Ok(<<>>)

\* Cigar.from_msa(ref, query)
MsaFromMsa ==
    /\ op = "init"
    /\ inp' = inp
    /\ op' = "from_msa"
    /\ out' = from_msa(inp.ref, inp.query)

\* c.to_msa(ref.replace("-", ""), query.replace("-", "")) of the Cigar c
\* that from_msa returned
MsaToMsa ==
    /\ op = "from_msa"
    /\ IsOk(out)
    /\ inp' = [inp EXCEPT !.c = out.val]
    /\ op' = "to_msa"
    /\ out' = to_msa(out.val, Degap(inp.ref), Degap(inp.query))

\* c.to_msa(ref, query) of any Cigar c
MsaRender ==
    /\ op = "init"
    /\ \E c \in MsaCigars :
           /\ inp' = [inp EXCEPT !.c = c]
           /\ op' = "render"
           /\ out' = to_msa(c, inp.ref, inp.query)

NextMsa == MsaFromMsa \/ MsaToMsa \/ MsaRender

SpecMsa == InitMsa /\ [][NextMsa]_vars

----------------------------------------------------------------------------
(* C30: for two rows (ref, query) of equal length over bases and "-" with  *)
(* no column in which both are "-", c = from_msa(ref, query) contains only *)
(* Match, Insert and Delete operations, and c.to_msa(ref without "-",      *)
(* query without "-") returns exactly (ref, query); the two strings        *)
(* to_msa returns always have equal length.                                *)

ProperRows(ref, query) ==
    /\ Len(ref) = Len(query)
    /\ \A i \in 1..Len(ref) : ~(ref[i] = "-" /\ query[i] = "-")

C30_MsaRoundTrip ==
    /\ (op = "from_msa" /\ ProperRows(inp.ref, inp.query)) =>
           /\ IsOk(out)
           /\ \A k \in 1..Len(out.val) :
                  out.val[k].op \in {MATCH, INSERT, DELETE}
    /\ (op = "to_msa" /\ ProperRows(inp.ref, inp.query)) =>
           out = Ok(<<inp.ref, inp.query>>)
    /\ (op \in {"to_msa", "render"} /\ IsOk(out)) =>
           Len(out.val[1]) = Len(out.val[2])

\* the rows A-C and AC- made the Cigar 1M1I1D and were rendered back
C30_Witness ==
    /\ op = "to_msa"
    /\ inp.ref = <<"A", "-", "C">>
    /\ inp.query = <<"A", "C", "-">>
    /\ DecodedOps(inp.c) = <<MATCH, INSERT, DELETE>>
    /\ out = Ok(<<inp.ref, inp.query>>)

====
